---- MODULE Spec2Model ----
(***************************************************************************)
(* Statelit: a canonical pydantic object kept in step with its             *)
(* representations in streamlit's session_state.                           *)
(*                                                                         *)
(* A representation key is a dotted string ("statelit.Model.a"); it is     *)
(* written here as the sequence of its dot-separated components            *)
(* (<<"statelit", "Model", "a">>), so joining with "." is \o.              *)
(*                                                                         *)
(* Python values are records, one shape per Python type:                   *)
(*   a number n                 [num |-> n]                                *)
(*   a SmallModel instance      [cls |-> "SmallModel", x |-> number]       *)
(*   a Model instance           [cls |-> "Model", a |-> number,            *)
(*                               sm |-> SmallModel instance]               *)
(*   a JSON text                [doc |-> JSON value, indent |-> <<>> or    *)
(*                               <<n>>]   (indent=None is <<>>)            *)
(*   a text that is not JSON    [junk |-> 1]                               *)
(* A JSON value is a number or a record of JSON values without "cls".      *)
(***************************************************************************)
EXTENDS Integers, Sequences, FiniteSets, TLC

VARIABLES
    session_state,          \* the store: key -> Python value (DOMAIN = keys present)
    value,                  \* node -> _value
    base_state_key,         \* node -> key
    replicated_state_keys,  \* node -> sequence of keys
    lazy_state_keys,        \* node -> sequence of keys
    last                    \* the operation that produced this state

vars == <<session_state, value, base_state_key, replicated_state_keys, lazy_state_keys, last>>

-----------------------------------------------------------------------------
(* Bounds *)

\* numbers 0..MaxNum satisfy the field constraint (le = MaxNum); MaxNum + 1 does not
MaxNum == 1
\* at most MaxKeys keys are in use besides those a construction creates
MaxKeys == 1
\* the number of candidates a key generator probes (100_000 in next_key,
\* max_keys in get_next_availble_key)
KeyLimit == 3
\* the number of keys of a registry
MaxRegistry == 2
\* the number of keys of a registry of generic types
MaxGenericKeys == 3
\* the number of decorators in the body of a factory class
MaxDecorators == 2

-----------------------------------------------------------------------------
(* The schema bound to the state manager (the input pydantic model):       *)
(*   class SmallModel(BaseModel):  x: int = MaxNum  (0 <= x <= MaxNum)     *)
(*   class Model(BaseModel):                                               *)
(*       a: float = MaxNum                          (0 <= a <= MaxNum)     *)
(*       sm: SmallModel = SmallModel()                                     *)
(*       root validator: a <= sm.x                                         *)

Num(n) == [num |-> n]
Nums == {Num(n) : n \in 0..MaxNum}
RawNums == {Num(n) : n \in 0..(MaxNum + 1)}

IsNum(v) == DOMAIN v = {"num"}
IsText(v) == DOMAIN v = {"doc", "indent"}

SmallObj(x) == [cls |-> "SmallModel", x |-> x]
ModelObj(a, sm) == [cls |-> "Model", a |-> a, sm |-> sm]

ValidNum(v) == IsNum(v) /\ v \in Nums

Ok(v) == [ok |-> TRUE, v |-> v]
ValidationError == [ok |-> FALSE, exc |-> "ValidationError"]
KeyError == [ok |-> FALSE, exc |-> "KeyError"]

\* SmallModel(**data) / SmallModel.parse_obj(data): data has the field x
SmallModel_validate(d) ==
    IF "x" \in DOMAIN d /\ ValidNum(d.x) THEN Ok(SmallObj(d.x)) ELSE ValidationError

\* Model(**data): every field validated in declaration order, then the root
\* validator; sm is a SmallModel instance or a JSON object
Model_validate(d) ==
    IF ~({"a", "sm"} \subseteq DOMAIN d) THEN ValidationError
    ELSE IF ~ValidNum(d.a) THEN ValidationError
    ELSE LET s == SmallModel_validate(d.sm)
         IN IF ~s.ok THEN ValidationError
            ELSE IF d.a.num > s.v.x.num THEN ValidationError
            ELSE Ok(ModelObj(d.a, s.v))

SmallObjs == {SmallObj(x) : x \in Nums}
ModelObjs == {o \in [cls : {"Model"}, a : Nums, sm : SmallObjs] : o.a.num <= o.sm.x.num}

DefaultSmall == SmallObj(Num(MaxNum))
DefaultModel == ModelObj(Num(MaxNum), DefaultSmall)

-----------------------------------------------------------------------------
(* Nodes.  "M" is the StatelitModel of the state manager; "a" is its       *)
(* StatelitField child, "sm" its StatelitModel child, whose own            *)
(* StatelitField child is "x".  A child node is named after its field.     *)

Nodes == {"M", "a", "sm", "x"}

\* value.__fields__ in declaration order
Fields(n) ==
    CASE n = "M" -> <<"a", "sm">>
      [] n = "sm" -> <<"x">>
      [] OTHER -> <<>>

\* isinstance(node, StatelitModel)
IsStatelitModel(n) == n \in {"M", "sm"}

\* base_state_key = f"statelit.{pydantic_model.__name__}"
RootKey == <<"statelit", "Model">>

Range(seq) == {seq[i] : i \in 1..Len(seq)}

-----------------------------------------------------------------------------
(* JSON *)

NoIndent == <<>>
json_indent_size == 2

Text(doc, indent) == [doc |-> doc, indent |-> indent]
Junk == [junk |-> 1]

\* pydantic_encoder(o) for a model instance is o.dict(): the fields, in
\* declaration order, without the class
statelit_encoder(o) ==
    CASE o.cls = "Model" -> [a |-> o.a, sm |-> [x |-> o.sm.x]]
      [] o.cls = "SmallModel" -> [x |-> o.x]

json_dumps(o, indent) == Text(statelit_encoder(o), indent)

\* cls.parse_raw(x): whatever json.loads or the validation raises is
\* re-raised as a ValidationError
Model_parse_raw(x) == IF IsText(x) THEN Model_validate(x.doc) ELSE ValidationError
SmallModel_parse_raw(x) == IF IsText(x) THEN SmallModel_validate(x.doc) ELSE ValidationError

-----------------------------------------------------------------------------
(* The converters of each node *)

\* "M": StatelitModel.to_streamlit; "sm": the callback of _pre_base_model;
\* a number field has no to_streamlit converter: _identity
to_streamlit(n, v) ==
    CASE n = "M" -> json_dumps(v, <<json_indent_size>>)
      [] n = "sm" -> json_dumps(v, NoIndent)
      [] OTHER -> v

\* "M": StatelitModel.from_streamlit; "sm": the callback of _post_base_model;
\* a number field has no from_streamlit converter: _identity
from_streamlit(n, x) ==
    CASE n = "M" -> Model_parse_raw(x)
      [] n = "sm" -> SmallModel_parse_raw(x)
      [] OTHER -> Ok(x)

-----------------------------------------------------------------------------
(* The world an operation acts on: the store and the nodes' attributes.    *)

World == [ss |-> session_state, val |-> value, base |-> base_state_key,
          repl |-> replicated_state_keys, lazy |-> lazy_state_keys]

\* session_state[k] = v
SetItem(ss, k, v) == (k :> v) @@ ss

\* for key in keys: session_state[key] = v
SetItems(ss, keys, v) == [y \in keys |-> v] @@ ss

RECURSIVE sync(_, _, _)
RECURSIVE push_fields(_, _, _)

\* faulty variant of StatefulObjectBase.sync: the base key is not written
sync_without_base(w, n, update_lazy) ==
    IF update_lazy
    THEN [w EXCEPT !.ss = SetItems(@, Range(w.lazy[n]), to_streamlit(n, w.val[n]))]
    ELSE w

\* faulty variant of StatefulObjectBase.sync: the representation is computed
\* from the store entry of the base key, json.dumps(session_state[base]),
\* not from the value
sync_from_store(w, n, update_lazy) ==
    LET validated_value == IF w.base[n] \in DOMAIN w.ss
                           THEN Text(w.ss[w.base[n]], NoIndent)
                           ELSE to_streamlit(n, w.val[n])
        w1 == [w EXCEPT !.ss = SetItem(@, w.base[n], validated_value)]
    IN IF update_lazy
       THEN [w1 EXCEPT !.ss = SetItems(@, Range(w.lazy[n]), validated_value)]
       ELSE w1

\* faulty variant of StatefulObjectBase.sync: update_lazy is ignored and the
\* lazy keys are always written
sync_always_lazy(w, n, update_lazy) ==
    LET validated_value == to_streamlit(n, w.val[n])
    IN [w EXCEPT !.ss = SetItems(@, {w.base[n]} \cup Range(w.lazy[n]), validated_value)]

\* faulty variant of StatefulObjectBase.sync: the replicated keys are
\* written too, as in the loop the source leaves commented out
sync_with_replicated(w, n, update_lazy) ==
    LET validated_value == to_streamlit(n, w.val[n])
        w1 == [w EXCEPT !.ss = SetItems(@, {w.base[n]} \cup Range(w.repl[n]), validated_value)]
    IN IF update_lazy
       THEN [w1 EXCEPT !.ss = SetItems(@, Range(w.lazy[n]), validated_value)]
       ELSE w1

\* StatefulObjectBase.sync
StatefulObjectBase_sync(w, n, update_lazy) ==
    LET validated_value == to_streamlit(n, w.val[n])
        w1 == [w EXCEPT !.ss = SetItem(@, w.base[n], validated_value)]
    IN IF update_lazy
       THEN [w1 EXCEPT !.ss = SetItems(@, Range(w.lazy[n]), validated_value)]
       ELSE w1

\* faulty variant of the value setter: sync is not called
value_setter_without_sync(w, n, v) ==
    [w EXCEPT !.val[n] = v, !.ss = SetItem(@, w.base[n], v)]

\* faulty variant of the value setter: sync is called with update_lazy=False
value_setter_sync_not_lazy(w, n, v) ==
    sync([w EXCEPT !.val[n] = v, !.ss = SetItem(@, w.base[n], v)], n, FALSE)

\* the value setter: self._value = self.session_state[self.base_state_key] = v,
\* then self.sync(update_lazy=True), dispatched on the node's class
value_setter(w, n, v) ==
    sync([w EXCEPT !.val[n] = v, !.ss = SetItem(@, w.base[n], v)], n, TRUE)

\* the loop of StatelitModel.sync from the i-th field on:
\* field.value = getattr(self.value, field_name)
push_fields(w, n, i) ==
    IF i > Len(Fields(n)) THEN w
    ELSE push_fields(value_setter(w, Fields(n)[i], w.val[n][Fields(n)[i]]), n, i + 1)

\* faulty variant of StatelitModel.sync: the fields are not written
sync_without_fields(w, n, update_lazy) == StatefulObjectBase_sync(w, n, update_lazy)

\* StatelitModel.sync
StatelitModel_sync(w, n, update_lazy) ==
    push_fields(StatefulObjectBase_sync(w, n, update_lazy), n, 1)

sync(w, n, update_lazy) ==
    IF IsStatelitModel(n) THEN StatelitModel_sync(w, n, update_lazy)
    ELSE StatefulObjectBase_sync(w, n, update_lazy)

-----------------------------------------------------------------------------
(* Keys *)

\* all_keys_generator
all_keys_generator(w, n) == {w.base[n]} \cup Range(w.repl[n]) \cup Range(w.lazy[n])

\* str(i)
Digits == <<"0", "1", "2", "3", "4", "5", "6", "7", "8", "9">>
Str(i) == Digits[i + 1]

\* the exception of the for ... else of the key generators
ValueError == [ok |-> FALSE, exc |-> "ValueError"]

RECURSIVE probe_key(_, _, _, _)

\* faulty variant of the loop of the key generators: the candidate is not
\* looked up among the keys taken
probe_key_unchecked(prefix, data, max_keys, i) ==
    IF i >= max_keys THEN ValueError ELSE Ok(prefix \o <<Str(i)>>)

\* faulty variant of the loop of the key generators: range(max_keys + 1)
probe_key_one_more(prefix, data, max_keys, i) ==
    IF i > max_keys THEN ValueError
    ELSE IF prefix \o <<Str(i)>> \notin data THEN Ok(prefix \o <<Str(i)>>)
    ELSE probe_key(prefix, data, max_keys, i + 1)

\* the loop of next_key and of get_next_availble_key from candidate i on:
\* for i in range(max_keys): return the candidate if it is not in data;
\* else: raise ValueError
probe_key(prefix, data, max_keys, i) ==
    IF i >= max_keys THEN ValueError
    ELSE IF prefix \o <<Str(i)>> \notin data THEN Ok(prefix \o <<Str(i)>>)
    ELSE probe_key(prefix, data, max_keys, i + 1)

\* get_next_availble_key(prefix, data, max_keys)
get_next_availble_key(prefix, data, max_keys) == probe_key(prefix, data, max_keys, 0)

\* faulty variant of next_key: the candidates are looked up in the store,
\* as get_next_availble_key does, not among the keys of the node
next_key_over_store(w, n) ==
    get_next_availble_key(w.base[n] \o <<"_state_ref">>, DOMAIN w.ss, KeyLimit)

\* next_key, as the key or the exception it ends with: the loop over
\* f"{base_state_key}._state_ref.{i}" and the keys of the node, with
\* KeyLimit for the 100_000 of range(100_000)
next_key_loop(w, n) ==
    probe_key(w.base[n] \o <<"_state_ref">>, all_keys_generator(w, n), KeyLimit, 0)

\* next_key where it returns: a node has at most MaxKeys keys besides its
\* base key, fewer than KeyLimit
next_key(w, n) == next_key_loop(w, n).v

\* gen_key(key_suffix); no suffix is <<>>
gen_key(w, n, key_suffix) ==
    IF key_suffix = <<>> THEN next_key(w, n) ELSE w.base[n] \o key_suffix

\* the outcome of an operation: the world it leaves, whether st.error was
\* called, and the exception that left it ("" if none)
Outcome(w, surfaced, raised) == [w |-> w, surfaced |-> surfaced, raised |-> raised]

\* faulty variant of commit_key: a replicated key is copied into only if
\* the store does not hold it, as a lazy key is
commit_key_replicated_if_absent(w, n, key, state_type) ==
    CASE state_type = "base" ->
           Outcome([w EXCEPT !.base[n] = key], FALSE, "")
      [] state_type \in {"replicated", "lazy"} ->
           LET w1 == IF state_type = "lazy" THEN [w EXCEPT !.lazy[n] = Append(@, key)]
                     ELSE [w EXCEPT !.repl[n] = Append(@, key)]
           IN IF key \in DOMAIN w.ss THEN Outcome(w1, FALSE, "")
              ELSE IF w.base[n] \in DOMAIN w.ss
              THEN Outcome([w1 EXCEPT !.ss = SetItem(@, key, w.ss[w.base[n]])], FALSE, "")
              ELSE Outcome(w1, FALSE, "KeyError")
      [] OTHER -> Outcome(w, FALSE, "ValueError")

\* faulty variant of commit_key: a lazy key is always copied into, as a
\* replicated key is
commit_key_lazy_overwritten(w, n, key, state_type) ==
    CASE state_type = "base" ->
           Outcome([w EXCEPT !.base[n] = key], FALSE, "")
      [] state_type \in {"replicated", "lazy"} ->
           LET w1 == IF state_type = "lazy" THEN [w EXCEPT !.lazy[n] = Append(@, key)]
                     ELSE [w EXCEPT !.repl[n] = Append(@, key)]
           IN IF w.base[n] \in DOMAIN w.ss
              THEN Outcome([w1 EXCEPT !.ss = SetItem(@, key, w.ss[w.base[n]])], FALSE, "")
              ELSE Outcome(w1, FALSE, "KeyError")
      [] OTHER -> Outcome(w, FALSE, "ValueError")

\* commit_key(key, state_type=...)
commit_key(w, n, key, state_type) ==
    CASE state_type = "base" ->
           Outcome([w EXCEPT !.base[n] = key], FALSE, "")
      [] state_type = "replicated" ->
           LET w1 == [w EXCEPT !.repl[n] = Append(@, key)]
           IN IF w.base[n] \in DOMAIN w.ss
              THEN Outcome([w1 EXCEPT !.ss = SetItem(@, key, w.ss[w.base[n]])], FALSE, "")
              ELSE Outcome(w1, FALSE, "KeyError")
      [] state_type = "lazy" ->
           LET w1 == [w EXCEPT !.lazy[n] = Append(@, key)]
           IN IF key \in DOMAIN w.ss THEN Outcome(w1, FALSE, "")
              ELSE IF w.base[n] \in DOMAIN w.ss
              THEN Outcome([w1 EXCEPT !.ss = SetItem(@, key, w.ss[w.base[n]])], FALSE, "")
              ELSE Outcome(w1, FALSE, "KeyError")
      [] OTHER -> Outcome(w, FALSE, "ValueError")

-----------------------------------------------------------------------------
(* Construction *)

\* set_initial_value
set_initial_value(ss, key, v) ==
    LET initial_state_key == key \o <<"_initial_value">>
    IN IF initial_state_key \notin DOMAIN ss THEN SetItem(ss, initial_state_key, v) ELSE ss

\* StatefulObjectBase.__init__(value=v, base_state_key=key)
StatefulObjectBase_init(w, n, v, key) ==
    LET ss1 == set_initial_value(w.ss, key, v)
        ss2 == IF key \notin DOMAIN ss1 THEN SetItem(ss1, key, to_streamlit(n, v)) ELSE ss1
    IN [w EXCEPT !.ss = ss2, !.val[n] = v, !.base[n] = key,
                 !.repl[n] = <<>>, !.lazy[n] = <<>>]

RECURSIVE construct_fields(_, _, _)
RECURSIVE node_init(_, _, _, _)

\* the loop of construct_all_statelit_fields from the i-th field on: the
\* field factory builds the child with base_state_key = f"{key_prefix}.{field.name}"
construct_fields(w, n, i) ==
    IF i > Len(Fields(n)) THEN w
    ELSE LET f == Fields(n)[i]
         IN construct_fields(node_init(w, f, w.val[n][f], w.base[n] \o <<f>>), n, i + 1)

\* StatelitModel.__init__ or StatelitField.__init__
node_init(w, n, v, key) ==
    LET w1 == StatefulObjectBase_init(w, n, v, key)
    IN IF IsStatelitModel(n) THEN construct_fields(w1, n, 1) ELSE w1

\* StateManager.__init__ over the store ss; parse_raw of a stored base
\* representation that does not validate raises out of the constructor
StateManager_init(w) ==
    LET stored == IF RootKey \in DOMAIN w.ss THEN Model_parse_raw(w.ss[RootKey]) ELSE Ok(DefaultModel)
    IN IF stored.ok THEN Outcome(node_init(w, "M", stored.v, RootKey), FALSE, "")
       ELSE Outcome(w, FALSE, stored.exc)

-----------------------------------------------------------------------------
(* The delta application of the state manager *)

\* parent.value.__class__(**data)
class_validate(parent, data) ==
    IF parent = "M" THEN Model_validate(data) ELSE SmallModel_validate(data)

\* data[fn] for one field of apply_field_delta: the edited field is parsed
\* from session_state[key], every other field from its own base key
field_datum(w, key, field_name, fn) ==
    LET k == IF fn = field_name THEN key ELSE w.base[fn]
    IN IF k \in DOMAIN w.ss THEN from_streamlit(fn, w.ss[k]) ELSE KeyError

\* faulty variant of apply_field_delta: the new object is assigned to
\* parent._value, not through the value setter
apply_field_delta_without_setter(w, key, field_name, parent) ==
    LET original == w.val[parent]
        fns == Range(Fields(parent))
        parsed == [fn \in fns |-> field_datum(w, key, field_name, fn)]
        data == [fn \in fns |-> parsed[fn].v]
        built == IF \A fn \in fns : parsed[fn].ok
                 THEN class_validate(parent, data) ELSE ValidationError
    IN IF built.ok
       THEN Outcome([w EXCEPT !.val[parent] = built.v], FALSE, "")
       ELSE Outcome(value_setter(w, parent, original), TRUE, "")

\* parent.value.__class__.construct(**data): the object without validation
class_construct(parent, data) ==
    IF parent = "M" THEN ModelObj(data.a, data.sm) ELSE SmallObj(data.x)

\* faulty variant of apply_field_delta: the new object is built with
\* construct(**data), which does not validate
apply_field_delta_unvalidated(w, key, field_name, parent) ==
    LET original == w.val[parent]
        fns == Range(Fields(parent))
        parsed == [fn \in fns |-> field_datum(w, key, field_name, fn)]
        data == [fn \in fns |-> parsed[fn].v]
    IN IF \A fn \in fns : parsed[fn].ok
       THEN Outcome(value_setter(w, parent, class_construct(parent, data)), FALSE, "")
       ELSE Outcome(value_setter(w, parent, original), TRUE, "")

\* apply_field_delta(key, field_name, parent): any exception is caught,
\* shown with st.error and followed by parent.value = original
apply_field_delta(w, key, field_name, parent) ==
    LET original == w.val[parent]
        fns == Range(Fields(parent))
        parsed == [fn \in fns |-> field_datum(w, key, field_name, fn)]
        data == [fn \in fns |-> parsed[fn].v]
        built == IF \A fn \in fns : parsed[fn].ok
                 THEN class_validate(parent, data) ELSE ValidationError
    IN IF built.ok
       THEN Outcome(value_setter(w, parent, built.v), FALSE, "")
       ELSE Outcome(value_setter(w, parent, original), TRUE, "")

\* faulty variant of apply_obj_delta: the ValidationError is not caught
apply_obj_delta_uncaught(w, key, parent) ==
    IF key \notin DOMAIN w.ss THEN Outcome(w, FALSE, "KeyError")
    ELSE LET pydantic_obj == from_streamlit(parent, w.ss[key])
         IN IF pydantic_obj.ok
            THEN Outcome(value_setter(w, parent, pydantic_obj.v), FALSE, "")
            ELSE Outcome(w, FALSE, pydantic_obj.exc)

\* faulty variant of apply_obj_delta: the parsed object is assigned to
\* parent._value, not through the value setter
apply_obj_delta_without_setter(w, key, parent) ==
    LET original == w.val[parent]
    IN IF key \notin DOMAIN w.ss THEN Outcome(w, FALSE, "KeyError")
       ELSE LET pydantic_obj == from_streamlit(parent, w.ss[key])
            IN IF pydantic_obj.ok
               THEN Outcome([w EXCEPT !.val[parent] = pydantic_obj.v], FALSE, "")
               ELSE Outcome(value_setter(w, parent, original), TRUE, "")

\* apply_obj_delta(key, parent): only a ValidationError is caught
apply_obj_delta(w, key, parent) ==
    LET original == w.val[parent]
    IN IF key \notin DOMAIN w.ss THEN Outcome(w, FALSE, "KeyError")
       ELSE LET pydantic_obj == from_streamlit(parent, w.ss[key])
            IN IF pydantic_obj.ok
               THEN Outcome(value_setter(w, parent, pydantic_obj.v), FALSE, "")
               ELSE Outcome(value_setter(w, parent, original), TRUE, "")

\* faulty variant of apply_delta: the Apply button is given the handler of
\* a whole-object edit, which rolls back through the value setter
apply_delta_with_rollback(w, key) == apply_obj_delta(w, key, "M")

\* apply_delta of lazy_text_area, the on_click callback of its Apply
\* button: the text under key is parsed and assigned to the model, then
\* key is given the base representation; a ValidationError is shown
apply_delta(w, key) ==
    IF key \notin DOMAIN w.ss THEN Outcome(w, FALSE, "KeyError")
    ELSE LET parsed == Model_parse_raw(w.ss[key])
         IN IF parsed.ok
            THEN LET w1 == value_setter(w, "M", parsed.v)
                 IN Outcome([w1 EXCEPT !.ss = SetItem(@, key, w1.ss[w1.base["M"]])], FALSE, "")
            ELSE Outcome(w, TRUE, "")

RECURSIVE apply_field_deltas(_, _, _, _)

\* the loop of apply_session_state_delta from the i-th field of parent on;
\* o is the outcome so far
apply_field_deltas(o, key, parent, i) ==
    IF i > Len(Fields(parent)) THEN o
    ELSE LET f == Fields(parent)[i]
             r == IF key \in all_keys_generator(o.w, f)
                  THEN apply_field_delta(o.w, key, f, parent)
                  ELSE Outcome(o.w, FALSE, "")
         IN apply_field_deltas(Outcome(r.w, o.surfaced \/ r.surfaced, ""), key, parent, i + 1)

\* apply_session_state_delta(key, parent).  A StatelitField has no fields
\* attribute: parent.fields raises AttributeError there.
apply_session_state_delta(w, key, parent) ==
    LET o == IF key \in all_keys_generator(w, parent)
             THEN apply_obj_delta(w, key, parent)
             ELSE Outcome(w, FALSE, "")
    IN IF o.raised # "" THEN o
       ELSE IF ~IsStatelitModel(parent) THEN Outcome(o.w, o.surfaced, "AttributeError")
       ELSE apply_field_deltas(o, key, parent, 1)

-----------------------------------------------------------------------------
(* What the caller and the user put in *)

\* the values a caller assigns to node.value
Values(n) ==
    CASE n = "M" -> ModelObjs
      [] n = "sm" -> SmallObjs
      [] OTHER -> Nums

\* the texts a user types into a text area of SmallModel: every x as the
\* node writes it, and one with another indentation
SmallTexts ==
    {json_dumps(o, NoIndent) : o \in SmallObjs}
        \cup {Text([x |-> Num(0)], <<json_indent_size>>)}

\* the texts a user types into a text area of Model: the valid objects as
\* the node writes them, one with another indentation, and one that breaks
\* the root validator
ModelTexts ==
    {json_dumps(o, <<json_indent_size>>) : o \in ModelObjs}
        \cup {Text([a |-> Num(0), sm |-> [x |-> Num(0)]], NoIndent),
              Text([a |-> Num(MaxNum), sm |-> [x |-> Num(0)]], <<json_indent_size>>)}

\* the raw values a widget of node n can report
UserInputs(n) ==
    CASE n = "M" -> ModelTexts \cup {Junk}
      [] n = "sm" -> SmallTexts \cup {Junk}
      [] OTHER -> RawNums

\* the key commit_key(state_type="base") rebinds node n to
AltBaseKey(n) == <<"alt", n>>

\* the nodes a caller writes directly
ApiNodes == {"M"}

\* the nodes a caller syncs directly: the model and one of its fields
SyncNodes == {"M", "a"}

\* the nodes that are given lazy keys: the model, as lazy_text_area does,
\* and one of its fields
LazyNodes == {"M", "a"}

\* the nodes whose base key a caller rebinds
RebindNodes == {"a"}

\* the keys every construction puts in the store
OwnKeys ==
    LET w == StateManager_init([ss |-> <<>>, val |-> [n \in Nodes |-> Num(0)],
                                base |-> [n \in Nodes |-> <<>>],
                                repl |-> [n \in Nodes |-> <<>>],
                                lazy |-> [n \in Nodes |-> <<>>]]).w
    IN DOMAIN w.ss

\* the keys in use besides those: in the store, or a key of a node
ExtraKeys(w) ==
    ((DOMAIN w.ss) \cup UNION {all_keys_generator(w, n) : n \in Nodes}) \ OwnKeys

\* there is room for key, and node n has room for one more key
Room(w, n, key) ==
    /\ Len(w.repl[n]) + Len(w.lazy[n]) < MaxKeys
    /\ Cardinality(ExtraKeys(w) \cup {key}) <= MaxKeys

-----------------------------------------------------------------------------
(* The state machine *)

\* no value was passed
NoValue == [none |-> TRUE]

\* the record of the last operation: what was called on which node with
\* which key, argument and value v, whether it called st.error and which
\* exception left it
Op(op, node, key, arg, v, o) ==
    [op |-> op, node |-> node, key |-> key, arg |-> arg, v |-> v,
     surfaced |-> o.surfaced, raised |-> o.raised]

Becomes(w) ==
    /\ session_state' = w.ss
    /\ value' = w.val
    /\ base_state_key' = w.base
    /\ replicated_state_keys' = w.repl
    /\ lazy_state_keys' = w.lazy

\* before the first construction: an empty store, no node
Blank == [ss |-> <<>>, val |-> [n \in Nodes |-> Num(0)], base |-> [n \in Nodes |-> <<>>],
          repl |-> [n \in Nodes |-> <<>>], lazy |-> [n \in Nodes |-> <<>>]]

Init ==
    LET o == StateManager_init(Blank)
    IN /\ session_state = o.w.ss
       /\ value = o.w.val
       /\ base_state_key = o.w.base
       /\ replicated_state_keys = o.w.repl
       /\ lazy_state_keys = o.w.lazy
       /\ last = Op("construct", "M", <<>>, "", NoValue, o)

\* the script of a render pass is running: it ends with the user's event,
\* after which streamlit runs the script, and so the construction, again
Rendering == last.op \notin {"widget", "field", "lazy_input", "apply"}

\* a render pass starts: StateManager(Model) over the store as it is
Construct ==
    LET o == StateManager_init(World)
    IN Becomes(o.w) /\ last' = Op("construct", "M", <<>>, "", NoValue, o)

\* node.value = v
SetValue(n, v) ==
    /\ Rendering
    /\ Becomes(value_setter(World, n, v))
    /\ last' = Op("value", n, <<>>, "", v, Outcome(World, FALSE, ""))

\* node.sync(update_lazy=...)
Sync(n, update_lazy) ==
    /\ Rendering
    /\ Becomes(sync(World, n, update_lazy))
    /\ last' = Op("sync", n, <<>>, IF update_lazy THEN "lazy" ELSE "", NoValue,
                Outcome(World, FALSE, ""))

\* node.commit_key(node.gen_key(), state_type=...)
CommitKey(n, state_type) ==
    /\ Rendering
    /\ Room(World, n, gen_key(World, n, <<>>))
    /\ LET key == gen_key(World, n, <<>>)
           o == commit_key(World, n, key, state_type)
       IN Becomes(o.w) /\ last' = Op("commit_key", n, key, state_type, NoValue, o)

\* node.commit_key(key, state_type="base")
CommitBaseKey(n) ==
    /\ Rendering
    /\ Room(World, n, AltBaseKey(n))
    /\ LET o == commit_key(World, n, AltBaseKey(n), "base")
       IN Becomes(o.w) /\ last' = Op("commit_key", n, AltBaseKey(n), "base", NoValue, o)

\* the user changes the widget rendered for node n under key: the toolkit
\* stores the raw value, then calls the on_change callback of _widget,
\* apply_session_state_delta(key=key, parent=obj.parent or obj); no node is
\* given a parent, so parent is the node itself
WidgetChange(n, key, raw) ==
    /\ Rendering
    /\ key \in Range(replicated_state_keys[n]) \cap DOMAIN session_state
    /\ LET w == [World EXCEPT !.ss = SetItem(@, key, raw)]
           o == apply_session_state_delta(w, key, n)
       IN Becomes(o.w) /\ last' = Op("widget", n, key, "", raw, o)

\* the user changes the widget rendered for field f of parent under key,
\* and the change is applied with apply_field_delta(key, f, parent)
FieldChange(parent, f, key, raw) ==
    /\ Rendering
    /\ f \in Range(Fields(parent))
    /\ key \in Range(replicated_state_keys[f]) \cap DOMAIN session_state
    /\ LET w == [World EXCEPT !.ss = SetItem(@, key, raw)]
           o == apply_field_delta(w, key, f, parent)
       IN Becomes(o.w) /\ last' = Op("field", parent, key, f, raw, o)

\* faulty variant of the text area of a lazy key: it is given the on_change
\* callback of _widget
LazyInput_with_on_change(n, key, raw) ==
    /\ Rendering
    /\ key \in Range(lazy_state_keys[n]) \cap DOMAIN session_state
    /\ LET w == [World EXCEPT !.ss = SetItem(@, key, raw)]
           o == apply_session_state_delta(w, key, n)
       IN Becomes(o.w) /\ last' = Op("lazy_input", n, key, "", raw, o)

\* the user types into the text area of a lazy key: nothing is called
LazyInput(n, key, raw) ==
    /\ Rendering
    /\ key \in Range(lazy_state_keys[n]) \cap DOMAIN session_state
    /\ Becomes([World EXCEPT !.ss = SetItem(@, key, raw)])
    /\ last' = Op("lazy_input", n, key, "", raw, Outcome(World, FALSE, ""))

Next ==
    \/ Construct
    \/ \E n \in ApiNodes : \E v \in Values(n) : SetValue(n, v)
    \/ \E n \in SyncNodes : \E update_lazy \in BOOLEAN : Sync(n, update_lazy)
    \/ \E n \in Nodes : CommitKey(n, "replicated")
    \/ \E n \in LazyNodes : CommitKey(n, "lazy")
    \/ \E n \in RebindNodes : CommitBaseKey(n)
    \/ \E n \in Nodes : \E key \in Range(replicated_state_keys[n]) :
           \E raw \in UserInputs(n) : WidgetChange(n, key, raw)
    \/ \E parent \in {"M", "sm"} : \E f \in Range(Fields(parent)) :
           \E key \in Range(replicated_state_keys[f]) :
               \E raw \in UserInputs(f) : FieldChange(parent, f, key, raw)
    \/ \E n \in Nodes : \E key \in Range(lazy_state_keys[n]) :
           \E raw \in UserInputs(n) : LazyInput(n, key, raw)

Spec == Init /\ [][Next]_vars

\* the calls of a script that renders no widget: construction, value writes,
\* sync and commit_key
NextApi ==
    \/ Construct
    \/ \E n \in ApiNodes : \E v \in Values(n) : SetValue(n, v)
    \/ \E n \in SyncNodes : \E update_lazy \in BOOLEAN : Sync(n, update_lazy)
    \/ \E n \in Nodes : CommitKey(n, "replicated")
    \/ \E n \in LazyNodes : CommitKey(n, "lazy")
    \/ \E n \in RebindNodes : CommitBaseKey(n)

SpecApi == Init /\ [][NextApi]_vars

\* the keys in the store of world w, and key, besides the base keys
StoredKeys(w, key) ==
    ((DOMAIN w.ss) \cup {key}) \ (OwnKeys \cup {AltBaseKey(n) : n \in RebindNodes})

\* node.commit_key(node.gen_key(), state_type=...) on a node with fewer than
\* MaxKeys replicated and lazy keys, whatever its base key is
CommitGenKey(n, state_type) ==
    /\ Rendering
    /\ Len(replicated_state_keys[n]) + Len(lazy_state_keys[n]) < MaxKeys
    /\ Cardinality(StoredKeys(World, gen_key(World, n, <<>>))) <= MaxKeys
    /\ LET key == gen_key(World, n, <<>>)
           o == commit_key(World, n, key, state_type)
       IN Becomes(o.w) /\ last' = Op("commit_key", n, key, state_type, NoValue, o)

\* node.commit_key(key, state_type="base") on a node that was not rebound
Rebind(n) ==
    /\ Rendering
    /\ base_state_key[n] # AltBaseKey(n)
    /\ LET o == commit_key(World, n, AltBaseKey(n), "base")
       IN Becomes(o.w) /\ last' = Op("commit_key", n, AltBaseKey(n), "base", NoValue, o)

\* the state types a caller passes to commit_key: the three the code
\* knows and one it does not
StateTypes == {"replicated", "lazy", "cached"}

\* the calls and events around the keys of one field: construction, value
\* writes to the model, commit_key of every kind on the field, and the
\* user's typing under a lazy key of the field
NextCommit ==
    \/ Construct
    \/ \E n \in ApiNodes : \E v \in Values(n) : SetValue(n, v)
    \/ \E n \in RebindNodes : \E state_type \in StateTypes : CommitGenKey(n, state_type)
    \/ \E n \in RebindNodes : Rebind(n)
    \/ \E n \in RebindNodes : \E key \in Range(lazy_state_keys[n]) :
           \E raw \in UserInputs(n) : LazyInput(n, key, raw)

SpecCommit == Init /\ [][NextCommit]_vars

\* the nodes the page renders a widget for: the model and one of its fields
WidgetNodes == {"M", "a"}

\* state_manager.lazy_text_area(), once in a pass: the model is given a
\* generated lazy key
RenderLazyTextArea ==
    /\ Rendering
    /\ lazy_state_keys["M"] = <<>>
    /\ LET key == gen_key(World, "M", <<>>)
           o == commit_key(World, "M", key, "lazy")
       IN Becomes(o.w) /\ last' = Op("commit_key", "M", key, "lazy", NoValue, o)

\* state_manager.text_area() or state_manager.widget(field), once in a
\* pass: the node is given a generated replicated key
RenderWidget(n) ==
    /\ Rendering
    /\ replicated_state_keys[n] = <<>>
    /\ LET key == gen_key(World, n, <<>>)
           o == commit_key(World, n, key, "replicated")
       IN Becomes(o.w) /\ last' = Op("commit_key", n, key, "replicated", NoValue, o)

\* the user clicks the Apply button of the lazy text area rendered under key
Apply(key) ==
    /\ Rendering
    /\ key \in Range(lazy_state_keys["M"]) \cap DOMAIN session_state
    /\ LET o == apply_delta(World, key)
       IN Becomes(o.w) /\ last' = Op("apply", "M", key, "", NoValue, o)

\* a page with the lazy text area of the model next to widgets
NextLazy ==
    \/ Construct
    \/ RenderLazyTextArea
    \/ \E n \in WidgetNodes : RenderWidget(n)
    \/ \E n \in WidgetNodes : \E key \in Range(replicated_state_keys[n]) :
           \E raw \in UserInputs(n) : WidgetChange(n, key, raw)
    \/ \E key \in Range(replicated_state_keys["a"]) :
           \E raw \in UserInputs("a") : FieldChange("M", "a", key, raw)
    \/ \E key \in Range(lazy_state_keys["M"]) :
           \E raw \in UserInputs("M") : LazyInput("M", key, raw)
    \/ \E key \in Range(lazy_state_keys["M"]) : Apply(key)

SpecLazy == Init /\ [][NextLazy]_vars

\* the nodes whose keys are generated one after the other
KeyNodes == {"a"}

\* key = node.next_key()
NextKey(n) ==
    /\ LET k == next_key_loop(World, n)
       IN last' = Op("next_key", n, IF k.ok THEN k.v ELSE <<>>, "", NoValue,
                     Outcome(World, FALSE, IF k.ok THEN "" ELSE k.exc))
    /\ UNCHANGED <<session_state, value, base_state_key, replicated_state_keys, lazy_state_keys>>

\* node.commit_key(key, state_type=...) with the key next_key() has just
\* returned
CommitNextKey(n, state_type) ==
    /\ last.op = "next_key" /\ last.node = n /\ last.raised = ""
    /\ LET o == commit_key(World, n, last.key, state_type)
       IN Becomes(o.w) /\ last' = Op("commit_key", n, last.key, state_type, NoValue, o)

\* node.commit_key(node.gen_key(key_suffix=f"_state_ref.{i}")): the caller
\* names a key that is a candidate of next_key
CommitSuffix(n, i) ==
    /\ gen_key(World, n, <<"_state_ref", Str(i)>>) \notin all_keys_generator(World, n)
    /\ LET key == gen_key(World, n, <<"_state_ref", Str(i)>>)
           o == commit_key(World, n, key, "replicated")
       IN Becomes(o.w) /\ last' = Op("commit_key", n, key, "replicated", NoValue, o)

\* get_next_availble_key(f"{base_state_key}._state_ref", session_state, max_keys)
GetNextAvailableKey(n, max_keys) ==
    /\ LET k == get_next_availble_key(base_state_key[n] \o <<"_state_ref">>,
                                      DOMAIN session_state, max_keys)
       IN last' = Op("get_next_availble_key", n, IF k.ok THEN k.v ELSE <<>>, "", Num(max_keys),
                     Outcome(World, FALSE, IF k.ok THEN "" ELSE k.exc))
    /\ UNCHANGED <<session_state, value, base_state_key, replicated_state_keys, lazy_state_keys>>

\* keys are requested and committed on one node until none is left
NextKeys ==
    \/ \E n \in KeyNodes : NextKey(n)
    \/ \E n \in KeyNodes : \E state_type \in {"replicated", "lazy"} : CommitNextKey(n, state_type)
    \/ \E n \in KeyNodes : \E i \in 0..(KeyLimit - 1) : CommitSuffix(n, i)
    \/ \E n \in KeyNodes : \E max_keys \in 0..KeyLimit : GetNextAvailableKey(n, max_keys)

SpecKeys == Init /\ [][NextKeys]_vars

-----------------------------------------------------------------------------
(* Type dispatch: utils/mro.py *)

\* a class, and a subscripted generic such as Dict[str, int], which is
\* written Alias("dict", <<str, int>>): name is the origin, args the
\* arguments
Cls(name) == [name |-> name, args |-> <<>>]
Alias(name, args) == [name |-> name, args |-> args]

object == Cls("object")
int == Cls("int")
str == Cls("str")
float == Cls("float")
bool == Cls("bool")
dict == Cls("dict")
list == Cls("list")
tuple == Cls("tuple")
Enum == Cls("Enum")
NoneType == Cls("NoneType")
\* typing.Any and typing.Union are not classes
typing_Any == Cls("Any")
typing_Union == Cls("Union")

\* the classes of the test module: SomeIntEnum(int, Enum),
\* StringSubtype(str), A, B, C(A, B); an enum over str; and two abstract
\* base classes, Readable and Writable, with A registered as a virtual
\* subclass of both and ReadWritable(Readable, Writable) with B registered
SomeIntEnum == Cls("SomeIntEnum")
SomeStrEnum == Cls("SomeStrEnum")
StringSubtype == Cls("StringSubtype")
A == Cls("A")
B == Cls("B")
C == Cls("C")
Readable == Cls("Readable")
Writable == Cls("Writable")
ReadWritable == Cls("ReadWritable")

Classes ==
    {object, int, str, float, dict, list, tuple, Enum, NoneType, bool, SomeIntEnum,
     SomeStrEnum, StringSubtype, A, B, C, Readable, Writable, ReadWritable}

\* cls.__bases__
bases(cls) ==
    CASE cls = object -> <<>>
      [] cls = bool -> <<int>>
      [] cls = SomeIntEnum -> <<int, Enum>>
      [] cls = SomeStrEnum -> <<str, Enum>>
      [] cls = StringSubtype -> <<str>>
      [] cls = C -> <<A, B>>
      [] cls = ReadWritable -> <<Readable, Writable>>
      [] OTHER -> <<object>>

\* cls.__subclasses__()
subclasses(cls) ==
    CASE cls = int -> <<bool, SomeIntEnum>>
      [] cls = str -> <<StringSubtype, SomeStrEnum>>
      [] cls = Enum -> <<SomeIntEnum, SomeStrEnum>>
      [] cls = A -> <<C>>
      [] cls = B -> <<C>>
      [] cls = Readable -> <<ReadWritable>>
      [] cls = Writable -> <<ReadWritable>>
      [] OTHER -> <<>>

\* hasattr(cls, "__abstractmethods__"): the classes made by ABCMeta
has_abstractmethods(cls) == cls \in {Readable, Writable, ReadWritable}

\* the classes registered with abc.register(...)
abc_registry(abc) ==
    CASE abc \in {Readable, Writable} -> {A}
      [] abc = ReadWritable -> {B}
      [] OTHER -> {}

\* what a merge gives for a hierarchy that cannot be linearized: the
\* RuntimeError("Inconsistent hierarchy") of _c3_merge
Inconsistent == Cls("Inconsistent hierarchy")

\* the index of the first sequence whose head is in the tail of no sequence
merge_candidates(sequences) ==
    {i \in 1..Len(sequences) :
        \A j \in 1..Len(sequences) : sequences[i][1] \notin Range(Tail(sequences[j]))}

RECURSIVE c3_merge(_)

\* _c3_merge(sequences)
c3_merge(sequences) ==
    LET purged == SelectSeq(sequences, LAMBDA s : s # <<>>)
    IN IF purged = <<>> THEN <<>>
       ELSE IF merge_candidates(purged) = {} THEN <<Inconsistent>>
       ELSE LET i == CHOOSE i \in merge_candidates(purged) :
                         \A j \in merge_candidates(purged) : i <= j
                candidate == purged[i][1]
            IN <<candidate>> \o c3_merge([k \in 1..Len(purged) |->
                                             IF purged[k][1] = candidate
                                             THEN Tail(purged[k]) ELSE purged[k]])

RECURSIVE linearize(_)

\* the C3 linearization the interpreter computes when a class is made
linearize(cls) ==
    c3_merge(<<<<cls>>>> \o [i \in 1..Len(bases(cls)) |-> linearize(bases(cls)[i])]
                 \o <<bases(cls)>>)

\* cls.__mro__, the attribute of every class
class_mro == [cls \in Classes |-> linearize(cls)]

is_class(cls) == cls \in Classes

RECURSIVE subclass_check(_, _)

\* type.__subclasscheck__ with the subclass hook of ABCMeta: supercls is
\* a base of cls, or cls is a subclass of a class registered with
\* supercls or of a subclass of the abstract base class supercls
subclass_check(cls, supercls) ==
    \/ supercls \in Range(class_mro[cls])
    \/ \E rcls \in abc_registry(supercls) : subclass_check(cls, rcls)
    \/ \E scls \in Range(subclasses(supercls)) :
           has_abstractmethods(supercls) /\ subclass_check(cls, scls)

\* issubclass(cls, supercls) for two classes; the abstract base classes
\* cache their answers
issubclass == [cls \in Classes |-> {supercls \in Classes : subclass_check(cls, supercls)}]

\* pydantic's lenient_issubclass(cls, class_or_tuple): False when cls is
\* not a class
lenient_issubclass(cls, supercls) ==
    is_class(cls) /\ is_class(supercls) /\ supercls \in issubclass[cls]

\* Python's None
None == [none |-> TRUE]

\* get_origin(tp) and get_args(tp)
get_origin(tp) == IF tp.args = <<>> THEN None ELSE Cls(tp.name)
get_args(tp) == tp.args

\* typing's Optional[tp]: Union[tp, None], where a Union argument is
\* flattened, None is kept once and Optional[None] is NoneType
Optional(tp) ==
    IF tp = NoneType THEN NoneType
    ELSE IF get_origin(tp) = typing_Union
    THEN IF NoneType \in Range(tp.args) THEN tp ELSE Alias("Union", Append(tp.args, NoneType))
    ELSE Alias("Union", <<tp, NoneType>>)

\* faulty variant of extract_type_from_optional: Optional is not unwrapped
extract_type_kept(cls) == cls

\* extract_type_from_optional(cls)
extract_type_from_optional(cls) ==
    IF get_origin(cls) = typing_Union
    THEN LET new_types == SelectSeq(get_args(cls), LAMBDA t : t # NoneType)
         IN IF Len(new_types) = 1 THEN new_types[1] ELSE cls
    ELSE cls

RECURSIVE c3_mro(_, _)

\* the list [_c3_mro(base, abcs=abcs) for base in some_bases]
c3_mros(some_bases, abcs) == [i \in 1..Len(some_bases) |-> c3_mro(some_bases[i], abcs)]

\* _c3_mro(cls, abcs)
c3_mro(cls, abcs) ==
    LET abstract == {i \in 1..Len(bases(cls)) : has_abstractmethods(bases(cls)[i])}
        boundary == IF abstract = {} THEN 0
                    ELSE CHOOSE i \in abstract : \A j \in abstract : j <= i
        explicit_bases == SubSeq(bases(cls), 1, boundary)
        other_bases == SubSeq(bases(cls), boundary + 1, Len(bases(cls)))
        abstract_bases ==
            SelectSeq(abcs, LAMBDA base :
                /\ lenient_issubclass(cls, base)
                /\ ~\E b \in Range(bases(cls)) : lenient_issubclass(b, base))
        rest == SelectSeq(abcs, LAMBDA base : base \notin Range(abstract_bases))
    IN c3_merge(<<<<cls>>>> \o c3_mros(explicit_bases, rest) \o c3_mros(abstract_bases, rest)
                    \o c3_mros(other_bases, rest)
                    \o <<explicit_bases>> \o <<abstract_bases>> \o <<other_bases>>)

RECURSIVE longest_first(_, _)

\* found.sort(key=len, reverse=True), a stable sort, for lists of at most
\* n elements
longest_first(found, n) ==
    IF n < 0 THEN <<>>
    ELSE SelectSeq(found, LAMBDA sub : Len(sub) = n) \o longest_first(found, n - 1)

RECURSIVE extend_mro(_, _, _)

\* for sub in found: for subcls in sub: append subcls unless it is in mro;
\* from the i-th list on
extend_mro(mro, found, i) ==
    IF i > Len(found) THEN mro
    ELSE IF found[i] = <<>> THEN extend_mro(mro, found, i + 1)
    ELSE extend_mro(IF Head(found[i]) \in Range(mro) THEN mro ELSE Append(mro, Head(found[i])),
                    [found EXCEPT ![i] = Tail(@)], i)

RECURSIVE order_types(_, _, _, _)

\* the loop of _compose_mro that orders the abstract base classes, from
\* the i-th of types on
order_types(cls, types, i, mro) ==
    IF i > Len(types) THEN mro
    ELSE LET subs == SelectSeq(subclasses(types[i]), LAMBDA sub :
                         sub \notin Range(class_mro[cls]) /\ lenient_issubclass(cls, sub))
             found == [k \in 1..Len(subs) |->
                          SelectSeq(class_mro[subs[k]], LAMBDA t : t \in Range(types))]
         IN order_types(cls, types, i + 1,
                        IF found = <<>> THEN Append(mro, types[i])
                        ELSE extend_mro(mro, longest_first(found, Len(types)), 1))

\* faulty variant of _compose_mro: the ancestors of cls come in the reverse
\* of their linearization order
compose_mro_reversed(cls, types) ==
    LET is_related(typ) ==
            /\ typ \notin Range(class_mro[cls])
            /\ is_class(typ)
            /\ lenient_issubclass(cls, typ)
        related == SelectSeq(types, is_related)
        is_strict_base(typ) ==
            \E other \in Range(related) : typ # other /\ typ \in Range(class_mro[other])
        kept == SelectSeq(related, LAMBDA typ : ~is_strict_base(typ))
        mro == c3_mro(cls, order_types(cls, kept, 1, <<>>))
    IN [i \in 1..Len(mro) |-> IF i = 1 THEN mro[1] ELSE mro[Len(mro) + 2 - i]]

\* _compose_mro(cls, types)
compose_mro(cls, types) ==
    LET is_related(typ) ==
            /\ typ \notin Range(class_mro[cls])
            /\ is_class(typ)
            /\ lenient_issubclass(cls, typ)
        related == SelectSeq(types, is_related)
        is_strict_base(typ) ==
            \E other \in Range(related) : typ # other /\ typ \in Range(class_mro[other])
        kept == SelectSeq(related, LAMBDA typ : ~is_strict_base(typ))
    IN c3_mro(cls, order_types(cls, kept, 1, <<>>))

\* the exception of an ambiguous or inconsistent dispatch
RuntimeError == [ok |-> FALSE, exc |-> "RuntimeError"]

\* the registrable types, in the order a registry is filled in: a registry
\* is a function from some of them to converters, and registry.keys()
\* lists its keys in this order
KeyTypes ==
    <<int, str, Enum, SomeIntEnum, A, B, Readable, Writable, dict, tuple,
      Alias("dict", <<typing_Any, int>>), Alias("dict", <<typing_Any, SomeIntEnum>>),
      Alias("dict", <<str, int>>), Alias("tuple", <<str, int>>), object>>

keys(registry) == SelectSeq(KeyTypes, LAMBDA k : k \in DOMAIN registry)

\* registry.get(key)
get(registry, key) == IF key \in DOMAIN registry THEN registry[key] ELSE None

RECURSIVE match_loop(_, _, _, _, _)

\* faulty variant of the loop of _find_single_impl: a later key of the
\* linearization that is in the registry replaces the match
match_loop_last(cls, registry, mro, i, match) ==
    IF i > Len(mro) THEN Ok(get(registry, match))
    ELSE match_loop(cls, registry, mro, i + 1,
                    IF mro[i] \in DOMAIN registry THEN mro[i] ELSE match)

\* the loop for t in mro of _find_single_impl from the i-th entry on: the
\* first entry that is in the registry is the match, and the loop stops at
\* the entry after it, where it raises if that one is an equally matching
\* abstract base class
match_loop(cls, registry, mro, i, match) ==
    IF i > Len(mro) THEN Ok(get(registry, match))
    ELSE IF match # None
    THEN IF /\ mro[i] \in DOMAIN registry
            /\ mro[i] \notin Range(class_mro[cls])
            /\ match \notin Range(class_mro[cls])
            /\ ~lenient_issubclass(match, mro[i])
         THEN RuntimeError
         ELSE Ok(get(registry, match))
    ELSE match_loop(cls, registry, mro, i + 1,
                    IF mro[i] \in DOMAIN registry THEN mro[i] ELSE None)

\* _find_single_impl(cls, registry); an inconsistent hierarchy raises out
\* of _compose_mro
find_single_impl(cls, registry) ==
    IF Inconsistent \in Range(compose_mro(cls, keys(registry))) THEN RuntimeError
    ELSE match_loop(cls, registry, compose_mro(cls, keys(registry)), 1, None)

\* faulty variant of _lenient_issubclass_respect_origin_plus_depth: the
\* origins are compared and the arguments are not
lenient_issubclass_of_origin(cls0, supercls0, depth) ==
    LET cls == IF get_origin(cls0) # None THEN get_origin(cls0) ELSE cls0
        supercls == IF get_origin(supercls0) # None THEN get_origin(supercls0) ELSE supercls0
    IN IF supercls = typing_Any THEN [depth |-> depth, check |-> TRUE]
       ELSE [depth |-> depth, check |-> lenient_issubclass(cls, supercls)]

RECURSIVE lenient_issubclass_respect_origin_plus_depth(_, _, _)
RECURSIVE zip_depth(_, _, _, _)

\* the loop over zip(cls_args, supercls_args) from the i-th pair on, with
\* _d the depth so far
zip_depth(cls_args, supercls_args, i, _d) ==
    IF i > Len(cls_args) THEN [depth |-> _d, check |-> TRUE]
    ELSE LET r == lenient_issubclass_respect_origin_plus_depth(cls_args[i], supercls_args[i], 1)
         IN IF ~r.check THEN [depth |-> _d, check |-> FALSE]
            ELSE zip_depth(cls_args, supercls_args, i + 1, _d + r.depth)

\* _lenient_issubclass_respect_origin_plus_depth(cls, supercls, depth): X[Any]
\* is taken for X
lenient_issubclass_respect_origin_plus_depth(cls0, supercls0, depth) ==
    LET cls == IF get_origin(cls0) # None /\ get_args(cls0) = <<typing_Any>>
               THEN get_origin(cls0) ELSE cls0
        supercls == IF get_origin(supercls0) # None /\ get_args(supercls0) = <<typing_Any>>
                    THEN get_origin(supercls0) ELSE supercls0
        cls_origin == get_origin(cls)
        supercls_origin == get_origin(supercls)
    IN IF cls_origin # None /\ supercls_origin # None
       THEN IF ~lenient_issubclass(cls_origin, supercls_origin)
            THEN [depth |-> depth, check |-> FALSE]
            ELSE IF Len(get_args(cls)) # Len(get_args(supercls))
            THEN [depth |-> depth, check |-> FALSE]
            ELSE LET r == zip_depth(get_args(cls), get_args(supercls), 1, depth)
                 IN IF r.check THEN r ELSE [depth |-> depth, check |-> FALSE]
       ELSE IF cls_origin # None
       THEN lenient_issubclass_respect_origin_plus_depth(cls_origin, supercls, depth)
       ELSE IF supercls_origin # None THEN [depth |-> depth, check |-> FALSE]
       ELSE IF supercls = typing_Any THEN [depth |-> depth, check |-> TRUE]
       ELSE [depth |-> depth, check |-> lenient_issubclass(cls, supercls)]

\* faulty variant of find_implementation_traversing_origins_and_args: the
\* keys that cls matches at the least depth are kept
find_implementation_traversing_shallowest(cls, registry) ==
    LET d(k) == lenient_issubclass_respect_origin_plus_depth(cls, k, 1)
        valid == {k \in DOMAIN registry : d(k).check}
        filtered_registry_keys == {k \in valid : \A o \in valid : d(k).depth <= d(o).depth}
    IN IF Cardinality(filtered_registry_keys) = 1
       THEN Ok(CHOOSE k \in filtered_registry_keys : TRUE)
       ELSE IF filtered_registry_keys = {} THEN Ok(None)
       ELSE RuntimeError

\* faulty variant of find_implementation_traversing_origins_and_args: of
\* several keys at the greatest depth, one is returned
find_implementation_traversing_tie_resolved(cls, registry) ==
    LET d(k) == lenient_issubclass_respect_origin_plus_depth(cls, k, 1)
        valid == {k \in DOMAIN registry : d(k).check}
        filtered_registry_keys == {k \in valid : \A o \in valid : d(o).depth <= d(k).depth}
    IN IF filtered_registry_keys = {} THEN Ok(None)
       ELSE Ok(CHOOSE k \in filtered_registry_keys : TRUE)

\* find_implementation_traversing_origins_and_args(cls, registry): the
\* keys that cls matches at the greatest depth; the one key if there is
\* one, None if there is none, RuntimeError otherwise
find_implementation_traversing_origins_and_args(cls, registry) ==
    LET d(k) == lenient_issubclass_respect_origin_plus_depth(cls, k, 1)
        valid == {k \in DOMAIN registry : d(k).check}
        filtered_registry_keys == {k \in valid : \A o \in valid : d(o).depth <= d(k).depth}
    IN IF Cardinality(filtered_registry_keys) = 1
       THEN Ok(CHOOSE k \in filtered_registry_keys : TRUE)
       ELSE IF filtered_registry_keys = {} THEN Ok(None)
       ELSE RuntimeError

\* a registry value is a callable, which is true in a condition; None is not
truthy(v) == v # None

\* faulty variant of find_implementation: without the priority of Enum
find_implementation_without_enum(cls0, registry) ==
    LET cls == extract_type_from_optional(cls0)
    IN IF get_origin(cls) # None
       THEN LET k == find_implementation_traversing_origins_and_args(cls, registry)
            IN IF k.ok THEN Ok(get(registry, k.v)) ELSE k
       ELSE find_single_impl(cls, registry)

\* find_implementation(cls, registry), as the result or the exception
find_implementation(cls0, registry) ==
    LET cls == extract_type_from_optional(cls0)
        _sub_registry == [k \in {k \in DOMAIN registry : lenient_issubclass(k, Enum)} |-> registry[k]]
        maybe_find_implementation == find_single_impl(cls, _sub_registry)
    IN IF get_origin(cls) # None
       THEN LET k == find_implementation_traversing_origins_and_args(cls, registry)
            IN IF k.ok THEN Ok(get(registry, k.v)) ELSE k
       ELSE IF lenient_issubclass(cls, Enum) /\ ~maybe_find_implementation.ok
       THEN maybe_find_implementation
       ELSE IF lenient_issubclass(cls, Enum) /\ truthy(maybe_find_implementation.v)
       THEN maybe_find_implementation
       ELSE find_single_impl(cls, registry)

\* the converter registered for key
converter(key) == [converter |-> key]

\* the registries of at most MaxRegistry keys
Registries == {[k \in ks |-> converter(k)] : ks \in {ks \in SUBSET Range(KeyTypes) : Cardinality(ks) <= MaxRegistry}}

\* the types that are looked up: classes, subscripted generics, a Union
PlainTypes ==
    {int, str, float, SomeIntEnum, SomeStrEnum, StringSubtype, A, B, C, dict, list,
     Alias("dict", <<str, int>>), Alias("dict", <<str, SomeIntEnum>>),
     Alias("dict", <<str, str>>), Alias("list", <<int>>), Alias("tuple", <<str, int>>),
     Alias("Union", <<int, str>>)}

QueryTypes == PlainTypes \cup {Optional(tp) : tp \in PlainTypes}

\* a type and a registry are at hand for a lookup
InitDispatch ==
    LET o == StateManager_init(Blank)
    IN /\ session_state = o.w.ss
       /\ value = o.w.val
       /\ base_state_key = o.w.base
       /\ replicated_state_keys = o.w.repl
       /\ lazy_state_keys = o.w.lazy
       /\ last \in {[op |-> "lookup", cls |-> cls, registry |-> registry, result |-> None] :
                        cls \in QueryTypes, registry \in Registries}

\* find_implementation(cls, registry) is called
FindImplementation ==
    /\ last.op = "lookup"
    /\ last' = [last EXCEPT !.op = "find_implementation",
                           !.result = find_implementation(last.cls, last.registry)]
    /\ UNCHANGED <<session_state, value, base_state_key, replicated_state_keys, lazy_state_keys>>

NextDispatch == FindImplementation

SpecDispatch == InitDispatch /\ [][NextDispatch]_vars

\* the registry keys of subscripted generics and of their origins
GenericKeyTypes ==
    {tuple, dict, list,
     Alias("tuple", <<int, int>>), Alias("tuple", <<typing_Any, typing_Any>>),
     Alias("tuple", <<str, int>>),
     Alias("tuple", <<Alias("list", <<float>>), dict>>),
     Alias("tuple", <<Alias("list", <<float>>), Alias("dict", <<str, int>>)>>),
     Alias("dict", <<typing_Any, int>>), Alias("dict", <<typing_Any, SomeIntEnum>>),
     Alias("dict", <<str, int>>)}

\* the registries of at most MaxGenericKeys of these keys
GenericRegistries ==
    {[k \in ks |-> converter(k)] :
        ks \in {ks \in SUBSET GenericKeyTypes : Cardinality(ks) <= MaxGenericKeys}}

\* the subscripted generics that are looked up
GenericQueryTypes ==
    {Alias("tuple", <<int, int>>), Alias("tuple", <<str, int>>),
     Alias("tuple", <<Alias("list", <<float>>), Alias("dict", <<str, int>>)>>),
     Alias("tuple", <<Alias("list", <<float>>), Alias("dict", <<int, int>>)>>),
     Alias("tuple", <<Alias("list", <<int>>), dict>>),
     Alias("list", <<int>>), Alias("list", <<typing_Any>>),
     Alias("dict", <<str, int>>), Alias("dict", <<str, SomeIntEnum>>),
     Alias("dict", <<StringSubtype, SomeIntEnum>>), Alias("dict", <<str, bool>>),
     Alias("dict", <<str, float>>), Alias("dict", <<str, str>>)}

\* a subscripted generic and a registry are at hand for a lookup
InitGeneric ==
    LET o == StateManager_init(Blank)
    IN /\ session_state = o.w.ss
       /\ value = o.w.val
       /\ base_state_key = o.w.base
       /\ replicated_state_keys = o.w.repl
       /\ lazy_state_keys = o.w.lazy
       /\ last \in {[op |-> "lookup", cls |-> cls, registry |-> registry, result |-> None] :
                        cls \in GenericQueryTypes, registry \in GenericRegistries}

SpecGeneric == InitGeneric /\ [][NextDispatch]_vars

-----------------------------------------------------------------------------
(* Converter registration: field_factory/base.py *)

\* the Literal["widget", "to_streamlit", "from_streamlit"] of a converter
CallbackTypes == {"widget", "to_streamlit", "from_streamlit"}

\* the decorated methods of a factory class, in the order of dir(self)
ConverterNames == <<"_convert", "_pre_convert">>

TypeError(type_) == [ok |-> FALSE, exc |-> "TypeError", type_ |-> type_]

\* _identity
identity == [converter |-> "_identity"]

\* StatelitConverterAssociation(converter_name, callback_type, fields,
\* types); a list that is None or empty is false in the test and becomes []
StatelitConverterAssociation_init(converter_name, callback_type, fields, types) ==
    IF fields # {} /\ types # {} THEN ValueError
    ELSE Ok([converter_name |-> converter_name, callback_type |-> callback_type,
             fields |-> fields, types |-> types])

\* is_converter_for(callback_type, fields=fields, types=types)(func), for
\* the method func with its __statelit_callback_info__ so far
is_converter_for(callback_type, fields, types, func, info) ==
    LET assoc == StatelitConverterAssociation_init(func, callback_type, fields, types)
    IN IF assoc.ok THEN Ok(info \cup {assoc.v}) ELSE assoc

\* the decorators of a class body: the method, the role, the selectors
Decorators ==
    [func : Range(ConverterNames), callback_type : CallbackTypes,
     fields : {{}, {"a"}},
     types : {{}, {int}, {Alias("dict", <<typing_Any, SomeIntEnum>>)},
              {Alias("dict", <<typing_Any, int>>), Alias("dict", <<typing_Any, SomeIntEnum>>)}}]

RECURSIVE subsets_up_to(_, _)

\* the subsets of set of at most n elements
subsets_up_to(set, n) ==
    IF n = 0 THEN {{}}
    ELSE LET smaller == subsets_up_to(set, n - 1)
         IN smaller \cup {sub \cup {x} : sub \in smaller, x \in set}

RECURSIVE list_of(_)

\* the elements of a set as a list
list_of(set) ==
    IF set = {} THEN <<>>
    ELSE LET x == CHOOSE x \in set : TRUE IN <<x>> \o list_of(set \ {x})

RECURSIVE class_body_loop(_, _, _)

\* the decorators of a class body from the i-th on, with the
\* __statelit_callback_info__ of every method so far
class_body_loop(ds, i, info) ==
    IF i > Len(ds) THEN Ok(info)
    ELSE LET r == is_converter_for(ds[i].callback_type, ds[i].fields, ds[i].types,
                                   ds[i].func, info[ds[i].func])
         IN IF ~r.ok THEN r
            ELSE class_body_loop(ds, i + 1, [info EXCEPT ![ds[i].func] = r.v])

\* the execution of a class body with the decorators ds: the
\* __statelit_callback_info__ of every method, or the exception of the
\* first decorator that raises
class_body(ds) == class_body_loop(list_of(ds), 1, [func \in Range(ConverterNames) |-> {}])

RECURSIVE register_loop(_, _)

\* the loop for attr_name in dir(self) of _register_converter_callables,
\* from the i-th method on
register_loop(info, i) ==
    IF i > Len(ConverterNames) THEN <<>>
    ELSE list_of(info[ConverterNames[i]]) \o register_loop(info, i + 1)

\* _register_converter_callables(): self.statelit_converter_associations
register_converter_callables(info) == register_loop(info, 1)

\* getattr(self, converter_name): the bound method
getattr(converter_name) == converter(converter_name)

RECURSIVE callback_mapping_loop(_, _, _, _, _)

\* the loop of callback_mapping from the i-th association on: d[i] = ...
\* replaces what an earlier association has put under the same key
callback_mapping_loop(associations, association_type, callback_type, i, d) ==
    IF i > Len(associations) THEN d
    ELSE LET assoc == associations[i]
             ks == IF association_type = "fields" THEN assoc.fields ELSE assoc.types
         IN callback_mapping_loop(associations, association_type, callback_type, i + 1,
                IF assoc.callback_type = callback_type
                THEN [k \in DOMAIN d \cup ks |->
                         IF k \in ks THEN getattr(assoc.converter_name) ELSE d[k]]
                ELSE d)

\* callback_mapping(association_type=..., callback_type=...)
callback_mapping(associations, association_type, callback_type) ==
    callback_mapping_loop(associations, association_type, callback_type, 1, [k \in {} |-> None])

\* converter(value=value, field=field, model=model): the callback that the
\* converter makes for the field
make_callback(conv, field) == [callback |-> conv.converter, field |-> field.name]

\* the one element of a set
the(set) == CHOOSE x \in set : TRUE

\* faulty variant of get_callback_by_type: the type of the field is looked
\* up first, the name of the field when no converter is found for the type
get_callback_by_type_types_first(associations, field, callback_type) ==
    LET by_field == callback_mapping(associations, "fields", callback_type)
    IN the({IF ~by_type.ok THEN by_type
            ELSE IF by_type.v # None THEN Ok(make_callback(by_type.v, field))
            ELSE IF field.name \in DOMAIN by_field
            THEN Ok(make_callback(by_field[field.name], field))
            ELSE Ok(None) :
                by_type \in {find_implementation(field.type_,
                                 callback_mapping(associations, "types", callback_type))}})

\* get_callback_by_type(value, field, model, callback_type), as the
\* callback, None, or the exception of find_implementation
get_callback_by_type(associations, field, callback_type) ==
    LET by_field == callback_mapping(associations, "fields", callback_type)
    IN IF field.name \in DOMAIN by_field
       THEN Ok(make_callback(by_field[field.name], field))
       ELSE the({IF ~by_type.ok THEN by_type
                 ELSE IF by_type.v # None THEN Ok(make_callback(by_type.v, field))
                 ELSE Ok(None) :
                     by_type \in {find_implementation(field.type_,
                                      callback_mapping(associations, "types", callback_type))}})

\* faulty variant of get_widget_callback: None is returned as it is
get_widget_callback_unchecked(associations, field) ==
    get_callback_by_type(associations, field, "widget")

\* get_widget_callback(value, field, model)
get_widget_callback(associations, field) ==
    the({IF callback = Ok(None) THEN TypeError(field.type_) ELSE callback :
            callback \in {get_callback_by_type(associations, field, "widget")}})

\* FieldCallbacks(widget_callback, to_streamlit_callback=...,
\* from_streamlit_callback=...)
FieldCallbacks(widget_callback, to_streamlit_callback, from_streamlit_callback) ==
    [widget_callback |-> widget_callback,
     to_streamlit_callback |->
         IF to_streamlit_callback # None THEN to_streamlit_callback ELSE identity,
     from_streamlit_callback |->
         IF from_streamlit_callback # None THEN from_streamlit_callback ELSE identity]

\* get_field_callbacks(value, field, model): the arguments are evaluated in
\* the order widget, to_streamlit, from_streamlit, and the first exception
\* is the one that is raised
get_field_callbacks(associations, field) ==
    the({IF ~widget_callback.ok THEN widget_callback
         ELSE IF ~to_streamlit_callback.ok THEN to_streamlit_callback
         ELSE IF ~from_streamlit_callback.ok THEN from_streamlit_callback
         ELSE Ok(FieldCallbacks(widget_callback.v, to_streamlit_callback.v,
                                from_streamlit_callback.v)) :
            widget_callback \in {get_widget_callback(associations, field)},
            to_streamlit_callback \in {get_callback_by_type(associations, field, "to_streamlit")},
            from_streamlit_callback \in
                {get_callback_by_type(associations, field, "from_streamlit")}})

\* DynamicFieldFactoryBase.__call__(value, field, model): the node that is
\* constructed with the callbacks of the field, or the exception
factory_call(associations, field) ==
    the({IF ~field_callbacks.ok THEN field_callbacks
         ELSE Ok([name |-> field.name,
                  widget_callback |-> field_callbacks.v.widget_callback,
                  to_streamlit_callback |-> field_callbacks.v.to_streamlit_callback,
                  from_streamlit_callback |-> field_callbacks.v.from_streamlit_callback]) :
            field_callbacks \in {get_field_callbacks(associations, field)}})

\* the fields that a node is constructed for: ModelField.name and type_
ModelFields ==
    [name : {"a", "x"}, type_ : {int, float, Alias("dict", <<str, SomeIntEnum>>)}]

\* a class body with at most MaxDecorators decorators is at hand, and a field
InitFactory ==
    LET o == StateManager_init(Blank)
    IN /\ session_state = o.w.ss
       /\ value = o.w.val
       /\ base_state_key = o.w.base
       /\ replicated_state_keys = o.w.repl
       /\ lazy_state_keys = o.w.lazy
       /\ last \in {[op |-> "class", decorators |-> ds, field |-> field, info |-> None,
                      statelit_converter_associations |-> <<>>, result |-> None] :
                        ds \in subsets_up_to(Decorators, MaxDecorators),
                        field \in ModelFields}

\* the class body is executed: every decorator makes its association
DefineClass ==
    /\ last.op = "class"
    /\ LET info == class_body(last.decorators)
       IN last' = IF info.ok THEN [last EXCEPT !.op = "defined", !.info = info.v]
                  ELSE [last EXCEPT !.op = "raised", !.result = info]
    /\ UNCHANGED <<session_state, value, base_state_key, replicated_state_keys, lazy_state_keys>>

\* DynamicFieldFactoryBase.__init__(key_prefix, session_state)
FactoryInit ==
    /\ last.op = "defined"
    /\ last' = [last EXCEPT !.op = "factory",
                            !.statelit_converter_associations =
                                register_converter_callables(last.info)]
    /\ UNCHANGED <<session_state, value, base_state_key, replicated_state_keys, lazy_state_keys>>

\* the factory is called for the field
FactoryCall ==
    /\ last.op = "factory"
    /\ last' = [last EXCEPT !.op = "call",
                            !.result = factory_call(last.statelit_converter_associations,
                                                    last.field)]
    /\ UNCHANGED <<session_state, value, base_state_key, replicated_state_keys, lazy_state_keys>>

NextFactory == DefineClass \/ FactoryInit \/ FactoryCall

SpecFactory == InitFactory /\ [][NextFactory]_vars

-----------------------------------------------------------------------------
(* Callback chaining: utils/misc.py, core.py *)

\* an exception raised by a callback
Exception == [ok |-> FALSE, exc |-> "Exception"]

\* the callables that are chained: f and g of the test, and the
\* apply_delta and the on_change of StateManager._widget; each one returns
\* or raises
Callables == [name : {"f", "g", "apply_delta", "on_change"}, raises : BOOLEAN]

\* func(*args): what the call returns or raises; g doubles its argument
\* and the other callables return None
call(func, args) ==
    IF func.raises THEN Exception
    ELSE IF func.name = "g" /\ args # <<>> THEN Ok(2 * args[1])
    ELSE Ok(None)

\* faulty variant of _wraps: func2 is called before func1
wraps_func2_first(func1, func2, args, calls) ==
    LET called2 == Append(calls, [func |-> func2, args |-> args])
        called1 == Append(called2, [func |-> func1, args |-> <<>>])
    IN IF ~call(func2, args).ok THEN [calls |-> called2, result |-> call(func2, args)]
       ELSE IF ~call(func1, <<>>).ok THEN [calls |-> called1, result |-> call(func1, <<>>)]
       ELSE [calls |-> called1, result |-> call(func2, args)]

\* _wraps(*args) of chain_two_callables(func1, func2), with the calls made
\* so far: the calls after it, and what it returns or raises
wraps(func1, func2, args, calls) ==
    LET called1 == Append(calls, [func |-> func1, args |-> <<>>])
        called2 == Append(called1, [func |-> func2, args |-> args])
    IN IF ~call(func1, <<>>).ok THEN [calls |-> called1, result |-> call(func1, <<>>)]
       ELSE [calls |-> called2, result |-> call(func2, args)]

\* chain_two_callables(func1, func2): the function _wraps, nothing is called
chain_two_callables(func1, func2) == [wraps |-> <<func1, func2>>]

\* the arguments that the chained callable is called with
ChainArgs == {<<>>} \cup {<<a>> : a \in 0..MaxNum}

\* two callables are at hand: f and g, or the apply_delta of a widget and
\* the on_change of the user
InitChain ==
    LET o == StateManager_init(Blank)
    IN /\ session_state = o.w.ss
       /\ value = o.w.val
       /\ base_state_key = o.w.base
       /\ replicated_state_keys = o.w.repl
       /\ lazy_state_keys = o.w.lazy
       /\ last \in {[op |-> "callables", func1 |-> func1, func2 |-> func2, args |-> args,
                      chained |-> None, calls |-> <<>>, result |-> None] :
                        func1 \in {c \in Callables : c.name \in {"f", "apply_delta"}},
                        func2 \in {c \in Callables : c.name \in {"g", "on_change"}},
                        args \in ChainArgs}

\* chain_two_callables(func1, func2), as in StateManager._widget for an
\* on_change in kwargs
ChainTwoCallables ==
    /\ last.op = "callables"
    /\ last' = [last EXCEPT !.op = "chained",
                            !.chained = chain_two_callables(last.func1, last.func2)]
    /\ UNCHANGED <<session_state, value, base_state_key, replicated_state_keys, lazy_state_keys>>

\* the chained callable is called: by the test, or by the widget whose
\* value the user has changed
CallChained ==
    /\ last.op = "chained"
    /\ LET r == wraps(last.chained.wraps[1], last.chained.wraps[2], last.args, last.calls)
       IN last' = [last EXCEPT !.op = "called", !.calls = r.calls, !.result = r.result]
    /\ UNCHANGED <<session_state, value, base_state_key, replicated_state_keys, lazy_state_keys>>

NextChain == ChainTwoCallables \/ CallChained

SpecChain == InitChain /\ [][NextChain]_vars

-----------------------------------------------------------------------------
(* Properties *)

\* in world w the store entry of the base key of node n is serialize(value)
BaseHoldsIn(w, n) ==
    /\ w.base[n] \in DOMAIN w.ss
    /\ w.ss[w.base[n]] = to_streamlit(n, w.val[n])

BaseHolds(n) == BaseHoldsIn(World, n)

\* node n and the nodes below it
RECURSIVE Subtree(_)
Subtree(n) == {n} \cup UNION {Subtree(f) : f \in Range(Fields(n))}

\* C1 as stated: in every state reached by construction, value writes, sync
\* and commit_key calls, the store entry of every node's base key is
\* serialize(value) of the node's value
C1_BaseKeyAlways == \A n \in Nodes : BaseHolds(n)

\* C1, amended: the store entry of a node's base key is serialize(value)
\* after the construction over an empty store and after every value write
\* and every sync on the node, and a commit_key that registers a replicated
\* or a lazy key keeps it so (a commit_key that registers a base key rebinds
\* the node without writing the store)
C1_BaseKeyWritten ==
    /\ \A n \in Nodes : BaseHolds(n)
    /\ [][/\ last'.op \in {"value", "sync"} => BaseHoldsIn(World', last'.node)
          /\ (last'.op = "commit_key" /\ last'.arg # "base")
                => \A n \in Nodes : BaseHolds(n) => BaseHoldsIn(World', n)]_vars

\* a value write to the model reached a field whose base key was rebound to
\* a key the store did not hold
C1_Witness ==
    /\ last.op = "value"
    /\ last.v # DefaultModel
    /\ base_state_key["a"] = AltBaseKey("a")
    /\ BaseHolds("M") /\ BaseHolds("a")

\* C2 as stated: immediately after a value write on a node, every
\* replicated key of the node holds what the base key holds
C2_ReplicatedEqualBase ==
    last.op = "value" =>
        \A key \in Range(replicated_state_keys[last.node]) :
            /\ key \in DOMAIN session_state
            /\ session_state[key] = session_state[base_state_key[last.node]]

\* C2, amended: a value write on a node does not write the replicated keys:
\* immediately after it every replicated key of every node holds what it
\* held before the write
C2_ReplicatedUntouched ==
    [][last'.op = "value" =>
          \A n \in Nodes : \A key \in Range(replicated_state_keys[n]) \cap DOMAIN session_state :
              /\ key \in DOMAIN session_state'
              /\ session_state'[key] = session_state[key]]_vars

\* a value write has changed the base entry of the model, which has a
\* replicated key
C2_Witness ==
    /\ last.op = "value"
    /\ replicated_state_keys["M"] # <<>>
    /\ \E key \in Range(replicated_state_keys["M"]) :
           /\ key \in DOMAIN session_state
           /\ session_state[key] # session_state[base_state_key["M"]]

\* every field of n has the value of the attribute of n's value, its base
\* key holds its serialize of it, and so on below it
RECURSIVE FieldsFollow(_)
FieldsFollow(n) ==
    \A f \in Range(Fields(n)) :
        /\ value[f] = value[n][f]
        /\ BaseHolds(f)
        /\ FieldsFollow(f)

\* C3: after a value write or a sync on a model node every field node has
\* the value of the matching attribute of the parent's value and its base
\* key holds its serialize of that value, recursively
C3_FieldsFollow ==
    (last.op \in {"value", "sync"} /\ IsStatelitModel(last.node)) => FieldsFollow(last.node)

\* a value write has given the model a value other than the default, with
\* the nested field changed
C3_Witness ==
    /\ last.op = "value"
    /\ last.node = "M"
    /\ value["M"].sm # DefaultSmall
    /\ value["x"] = Num(0)

\* the outcome of parsing the candidate data of a single-field edit in
\* the state before it: raw for the edited field f, the store entry of
\* the base key for every other field, and of building the object from it
Candidate(parent, f, raw) ==
    LET fns == Range(Fields(parent))
        datum(g) == IF g = f THEN from_streamlit(g, raw)
                    ELSE IF base_state_key[g] \in DOMAIN session_state
                    THEN from_streamlit(g, session_state[base_state_key[g]])
                    ELSE KeyError
    IN IF \A g \in fns : datum(g).ok
       THEN class_validate(parent, [g \in fns |-> datum(g).v])
       ELSE ValidationError

\* in world w the nodes below n have the values of the attributes of object o
RECURSIVE ValuesBelow(_, _, _)
ValuesBelow(w, n, o) ==
    \A f \in Range(Fields(n)) : w.val[f] = o[f] /\ ValuesBelow(w, f, o[f])

\* C4: when the candidate data of a single-field edit builds an object,
\* after apply_field_delta the parent's value is that object, its base key
\* holds serialize of it, no error is shown, and the base entries of the
\* fields that were not edited are what they were
C4_FieldEditApplied ==
    [][last'.op = "field" =>
          LET c == Candidate(last'.node, last'.arg, last'.v)
          IN c.ok =>
               /\ ~last'.surfaced
               /\ value'[last'.node] = c.v
               /\ BaseHoldsIn(World', last'.node)
               /\ \A g \in Range(Fields(last'.node)) \ {last'.arg} :
                      /\ base_state_key'[g] = base_state_key[g]
                      /\ session_state'[base_state_key[g]] = session_state[base_state_key[g]]]_vars

\* a single-field edit of a has replaced the model's value
C4_Witness ==
    /\ last.op = "field" /\ last.node = "M" /\ last.arg = "a"
    /\ ~last.surfaced
    /\ value["M"] = ModelObj(Num(0), DefaultSmall)
    /\ last.v = Num(0)

\* C5: when a field's representation does not parse or the candidate data
\* does not build an object, after apply_field_delta the parent's value is
\* the object it was, every node below it has the value of the matching
\* attribute of that object, and an error was shown
C5_FieldEditRejected ==
    [][last'.op = "field" =>
          LET c == Candidate(last'.node, last'.arg, last'.v)
          IN ~c.ok =>
               /\ last'.surfaced
               /\ value'[last'.node] = value[last'.node]
               /\ ValuesBelow(World', last'.node, value[last'.node])]_vars

\* a single-field edit was rejected by the rule across the fields: each
\* field on its own is valid
C5_Witness ==
    /\ last.op = "field" /\ last.node = "M" /\ last.arg = "sm"
    /\ last.surfaced
    /\ SmallModel_parse_raw(last.v).ok
    /\ value["M"] = DefaultModel

\* C6: when the text under the edited key of a model node does not parse
\* to a valid object, after apply_obj_delta the node's value is what it was
\* and the failure was shown
C6_ObjEditRejected ==
    [][(last'.op = "widget" /\ IsStatelitModel(last'.node)) =>
          (~from_streamlit(last'.node, last'.v).ok =>
               /\ last'.surfaced
               /\ last'.raised = ""
               /\ value'[last'.node] = value[last'.node])]_vars

\* text that is no JSON was rejected while the model had a value other
\* than the default
C6_Witness ==
    /\ last.op = "widget" /\ last.node = "M"
    /\ last.v = Junk
    /\ last.surfaced
    /\ value["M"] # DefaultModel

\* C7: when the text under the edited key of a model node parses to an
\* object O, after apply_obj_delta the node's value is O, its base key
\* holds serialize(O) and every node below has the value of the matching
\* attribute of O
C7_ObjEditApplied ==
    (last.op = "widget" /\ IsStatelitModel(last.node)) =>
        LET O == from_streamlit(last.node, last.v)
        IN O.ok =>
             /\ ~last.surfaced
             /\ value[last.node] = O.v
             /\ BaseHolds(last.node)
             /\ ValuesBelow(World, last.node, O.v)

\* a text written with another indentation was applied and changed the
\* model and its fields
C7_Witness ==
    /\ last.op = "widget" /\ last.node = "M"
    /\ ~last.surfaced
    /\ last.v = Text([a |-> Num(0), sm |-> [x |-> Num(0)]], NoIndent)
    /\ value["M"] = ModelObj(Num(0), SmallObj(Num(0)))
    /\ value["x"] = Num(0)

\* the nodes an edit recorded in op is about: the node the handler was
\* called for and, for a single-field edit, the field
EditedNodes(op) == {op.node} \cup (IF op.op = "field" THEN {op.arg} ELSE {})

\* C8 as stated: after a rejected whole-object or single-field edit the
\* base key and every replicated key of the edited node, the key whose
\* content was rejected among them, hold serialize of the value the node
\* was rolled back to
C8_RejectedEditAllKeys ==
    (last.op \in {"widget", "field"} /\ last.surfaced) =>
        \A n \in EditedNodes(last) :
            /\ BaseHolds(n)
            /\ \A key \in Range(replicated_state_keys[n]) :
                   /\ key \in DOMAIN session_state
                   /\ session_state[key] = to_streamlit(n, value[n])

\* C8, amended: after a rejected whole-object or single-field edit the base
\* key of the edited node holds serialize of the value the node was rolled
\* back to; the handler does not write the replicated keys, and the key
\* whose content was rejected still holds that content
C8_RejectedEditBaseKey ==
    (last.op \in {"widget", "field"} /\ last.surfaced) =>
        /\ \A n \in EditedNodes(last) : BaseHolds(n)
        /\ last.key \in DOMAIN session_state
        /\ session_state[last.key] = last.v

\* a number out of range was rejected by a single-field edit and is still
\* under the key of the field's widget
C8_Witness ==
    /\ last.op = "field" /\ last.node = "M" /\ last.arg = "a"
    /\ last.surfaced
    /\ last.v = Num(MaxNum + 1)
    /\ session_state[last.key] = Num(MaxNum + 1)
    /\ value["a"] \in Nums

\* C9: after node.value = v the node's value is v, the store entry of the
\* base key is serialize(v) and every lazy key of the node holds
\* serialize(v), on a model node as well
C9_ValueWritten ==
    last.op = "value" =>
        /\ value[last.node] = last.v
        /\ base_state_key[last.node] \in DOMAIN session_state
        /\ session_state[base_state_key[last.node]] = to_streamlit(last.node, last.v)
        /\ \A key \in Range(lazy_state_keys[last.node]) :
               /\ key \in DOMAIN session_state
               /\ session_state[key] = to_streamlit(last.node, last.v)

\* a value other than the default was written to the model while it had a
\* lazy key
C9_Witness ==
    /\ last.op = "value" /\ last.node = "M"
    /\ last.v # DefaultModel
    /\ lazy_state_keys["M"] # <<>>

\* C10: sync(update_lazy=False) leaves the store entry of every lazy key
\* of the node as it was, sync(update_lazy=True) sets the store entry of
\* every lazy key of the node to serialize(value)
C10_SyncLazyKeys ==
    [][last'.op = "sync" =>
          \A key \in Range(lazy_state_keys[last'.node]) :
              IF last'.arg = "lazy"
              THEN /\ key \in DOMAIN session_state'
                   /\ session_state'[key] = to_streamlit(last'.node, value'[last'.node])
              ELSE IF key \in DOMAIN session_state
                   THEN key \in DOMAIN session_state' /\ session_state'[key] = session_state[key]
                   ELSE key \notin DOMAIN session_state']_vars

\* sync(update_lazy=False) ran on the model while its lazy key held a text
\* other than serialize(value)
C10_Witness ==
    /\ last.op = "sync" /\ last.node = "M" /\ last.arg = ""
    /\ \E key \in Range(lazy_state_keys["M"]) :
           /\ key \in DOMAIN session_state
           /\ session_state[key] # to_streamlit("M", value["M"])

\* the base keys and the replicated keys of all nodes
BaseAndReplicatedKeys ==
    UNION {{base_state_key[n]} \cup Range(replicated_state_keys[n]) : n \in Nodes}

\* C11: after sync(update_lazy=False) on a node, a second
\* sync(update_lazy=False) on it leaves the store entry of the base key and
\* of every replicated key, of the node and of the nodes below it, what the
\* first call left
C11_SyncIdempotent ==
    (last.op = "sync" /\ last.arg = "") =>
        LET again == sync(World, last.node, FALSE)
        IN /\ again.val = value
           /\ \A key \in BaseAndReplicatedKeys :
                  IF key \in DOMAIN session_state
                  THEN key \in DOMAIN again.ss /\ again.ss[key] = session_state[key]
                  ELSE key \notin DOMAIN again.ss

\* sync(update_lazy=False) ran on the model while a replicated key of it
\* held a text other than the base entry
C11_Witness ==
    /\ last.op = "sync" /\ last.node = "M" /\ last.arg = ""
    /\ \E key \in Range(replicated_state_keys["M"]) :
           /\ key \in DOMAIN session_state
           /\ session_state[key] # session_state[base_state_key["M"]]

\* C12 as stated: after commit_key(key, state_type="replicated") the key is
\* a replicated key of the node and the store entry of the key is the store
\* entry of the base key
C12_ReplicatedCopied ==
    (last.op = "commit_key" /\ last.arg = "replicated") =>
        /\ last.key \in Range(replicated_state_keys[last.node])
        /\ last.key \in DOMAIN session_state
        /\ base_state_key[last.node] \in DOMAIN session_state
        /\ session_state[last.key] = session_state[base_state_key[last.node]]

\* C12, amended: after commit_key(key, state_type="replicated") the key is
\* a replicated key of the node; when the store holds the base key the
\* call returns and the store entry of the key is the store entry of the
\* base key, whatever the key held; when the store does not hold the base
\* key (the node was rebound to a key never written) the call raises
\* KeyError after it has added the key
C12_ReplicatedCopiedFromStoredBase ==
    (last.op = "commit_key" /\ last.arg = "replicated") =>
        /\ last.key \in Range(replicated_state_keys[last.node])
        /\ IF base_state_key[last.node] \in DOMAIN session_state
           THEN /\ last.raised = ""
                /\ last.key \in DOMAIN session_state
                /\ session_state[last.key] = session_state[base_state_key[last.node]]
           ELSE last.raised = "KeyError"

\* a replicated key was committed on a field after the model was given
\* another value, and holds the field's new representation
C12_Witness ==
    /\ last.op = "commit_key" /\ last.arg = "replicated" /\ last.node = "a"
    /\ last.raised = ""
    /\ value["a"] = Num(0)
    /\ session_state[last.key] = Num(0)

\* C13 as stated: commit_key(key, state_type="lazy") leaves the store
\* entry of a key the store holds as it is, and gives a key the store does
\* not hold a copy of the base representation
C13_LazyCopiedOnce ==
    [][(last'.op = "commit_key" /\ last'.arg = "lazy") =>
          /\ last'.key \in DOMAIN session_state'
          /\ IF last'.key \in DOMAIN session_state
             THEN session_state'[last'.key] = session_state[last'.key]
             ELSE /\ base_state_key[last'.node] \in DOMAIN session_state
                  /\ session_state'[last'.key] = session_state[base_state_key[last'.node]]]_vars

\* C13, amended: commit_key(key, state_type="lazy") adds the key to the
\* lazy keys and leaves the store entry of a key the store holds as it is;
\* a key the store does not hold receives a copy of the base
\* representation when the store holds the base key, and otherwise (the
\* node was rebound to a key never written) the call raises KeyError after
\* it has added the key, and writes nothing
C13_LazyCopiedOnceFromStoredBase ==
    [][(last'.op = "commit_key" /\ last'.arg = "lazy") =>
          /\ last'.key \in Range(lazy_state_keys'[last'.node])
          /\ IF last'.key \in DOMAIN session_state
             THEN /\ last'.raised = ""
                  /\ session_state' = session_state
             ELSE IF base_state_key[last'.node] \in DOMAIN session_state
             THEN /\ last'.raised = ""
                  /\ last'.key \in DOMAIN session_state'
                  /\ session_state'[last'.key] = session_state[base_state_key[last'.node]]
             ELSE /\ last'.raised = "KeyError"
                  /\ session_state' = session_state]_vars

\* a lazy key was committed again and still holds what the user typed,
\* which is not the base representation
C13_Witness ==
    /\ last.op = "commit_key" /\ last.arg = "lazy" /\ last.node = "a"
    /\ last.key \in DOMAIN session_state
    /\ base_state_key["a"] \in DOMAIN session_state
    /\ session_state[last.key] # session_state[base_state_key["a"]]

\* the i-th candidate of next_key on node n
CandidateKey(n, i) == base_state_key[n] \o <<"_state_ref", Str(i)>>

\* C14: a key that next_key returns is not among the base, replicated and
\* lazy keys of the node, a key that get_next_availble_key returns is not
\* in data, and either is the candidate of the smallest index that is free
C14_KeyIsFirstFree ==
    /\ (last.op = "next_key" /\ last.raised = "") =>
           /\ last.key \notin all_keys_generator(World, last.node)
           /\ \E i \in 0..(KeyLimit - 1) :
                  /\ last.key = CandidateKey(last.node, i)
                  /\ \A j \in 0..(i - 1) :
                         CandidateKey(last.node, j) \in all_keys_generator(World, last.node)
    /\ (last.op = "get_next_availble_key" /\ last.raised = "") =>
           /\ last.key \notin DOMAIN session_state
           /\ \E i \in 0..(last.v.num - 1) :
                  /\ last.key = CandidateKey(last.node, i)
                  /\ \A j \in 0..(i - 1) : CandidateKey(last.node, j) \in DOMAIN session_state

\* with the candidates 0 and 1 taken next_key has returned candidate 2
C14_Witness ==
    /\ last.op = "next_key" /\ last.node = "a"
    /\ last.key = CandidateKey("a", 2)
    /\ {CandidateKey("a", 0), CandidateKey("a", 1)} \subseteq all_keys_generator(World, "a")

\* C15: a key generator raises exactly when every candidate of index
\* 0..N-1 is taken (N is KeyLimit for next_key, max_keys for
\* get_next_availble_key); so while fewer than N keys were committed on
\* the node next_key returns, and after N generated keys were committed
\* it raises
C15_KeySpaceExhausted ==
    /\ last.op = "next_key" =>
           /\ last.raised = "ValueError" <=>
                  \A i \in 0..(KeyLimit - 1) :
                      CandidateKey(last.node, i) \in all_keys_generator(World, last.node)
           /\ last.raised \in {"", "ValueError"}
           /\ Len(replicated_state_keys[last.node]) + Len(lazy_state_keys[last.node]) < KeyLimit
                  => last.raised = ""
    /\ last.op = "get_next_availble_key" =>
           /\ last.raised = "ValueError" <=>
                  \A i \in 0..(last.v.num - 1) : CandidateKey(last.node, i) \in DOMAIN session_state
           /\ last.raised \in {"", "ValueError"}

\* next_key has raised on a node with every candidate committed
C15_Witness ==
    /\ last.op = "next_key" /\ last.node = "a"
    /\ last.raised = "ValueError"
    /\ Len(replicated_state_keys["a"]) + Len(lazy_state_keys["a"]) = KeyLimit

\* C16: typing a text into the text area of a lazy key changes no value,
\* no key list and no store entry but that of the lazy key, and the
\* construction of the render pass that follows rebuilds every value as it
\* was and leaves the store as it is, the typed text under the lazy key
\* included; a whole-object or single-field edit that is accepted leaves
\* under every lazy key of the nodes it wrote serialize of their new value
C16_LazyPullsNotPushes ==
    [][/\ last'.op = "lazy_input" =>
             /\ value' = value
             /\ base_state_key' = base_state_key
             /\ replicated_state_keys' = replicated_state_keys
             /\ lazy_state_keys' = lazy_state_keys
             /\ DOMAIN session_state' = DOMAIN session_state
             /\ \A k \in DOMAIN session_state \ {last'.key} :
                    session_state'[k] = session_state[k]
       /\ (last.op = "lazy_input" /\ last'.op = "construct") =>
             /\ value' = value
             /\ session_state' = session_state
       /\ (last'.op \in {"widget", "field"} /\ ~last'.surfaced
              /\ last'.raised \in {"", "AttributeError"}) =>
             \A n \in Subtree(last'.node) :
                 \A key \in Range(lazy_state_keys'[n]) :
                     /\ key \in DOMAIN session_state'
                     /\ session_state'[key] = to_streamlit(n, value'[n])]_vars

\* the text of a valid object other than the model's value was typed under
\* the lazy key of the model while the model had a replicated key
C16_Witness ==
    /\ last.op = "lazy_input" /\ last.node = "M"
    /\ Model_parse_raw(last.v).ok
    /\ Model_parse_raw(last.v).v # value["M"]
    /\ session_state[last.key] = last.v
    /\ \E key \in Range(replicated_state_keys["M"]) :
           /\ key \in DOMAIN session_state
           /\ session_state[key] # last.v

\* C17: a construction that finds the base key of the model in the store
\* yields the value parsed from that entry, one that does not find it
\* yields the default object and writes its serialization under the base
\* key; and the construction that follows an accepted whole-object or
\* single-field edit rebuilds the value of the model and of every node
\* below it as the edit left them
C17_Reconstruction ==
    [][/\ (last'.op = "construct" /\ last'.raised = "") =>
             IF RootKey \in DOMAIN session_state
             THEN value'["M"] = Model_parse_raw(session_state[RootKey]).v
             ELSE /\ value'["M"] = DefaultModel
                  /\ session_state'[RootKey] = to_streamlit("M", DefaultModel)
       /\ (last.op \in {"widget", "field"} /\ ~last.surfaced /\ last.raised = ""
              /\ last'.op = "construct") =>
             value' = value]_vars

\* C18: a lookup of a class that is a key of the registry returns the
\* converter registered for that class, whichever other keys the registry
\* has
C18_ExactMatch ==
    (/\ last.op = "find_implementation"
     /\ get_origin(last.cls) = None
     /\ last.cls \in DOMAIN last.registry) =>
        last.result = Ok(last.registry[last.cls])

\* the class A was looked up in a registry with keys A and object
C18_Witness ==
    /\ last.op = "find_implementation"
    /\ last.cls = A
    /\ DOMAIN last.registry = {A, object}
    /\ last.result = Ok(converter(A))

\* the enum classes that subclass a primitive, which is their first base
EnumTypes == {cls \in Classes : cls # Enum /\ lenient_issubclass(cls, Enum)}

\* C19: a lookup of an enum class E(P, Enum) in a registry that has the
\* key P and the key E or Enum returns the converter of E if E is a key
\* and that of Enum otherwise, never that of P
C19_EnumPriority ==
    (/\ last.op = "find_implementation"
     /\ last.cls \in EnumTypes
     /\ bases(last.cls)[1] \in DOMAIN last.registry
     /\ {last.cls, Enum} \cap DOMAIN last.registry # {}) =>
        /\ last.result = Ok(converter(IF last.cls \in DOMAIN last.registry
                                       THEN last.cls ELSE Enum))
        /\ last.result # Ok(last.registry[bases(last.cls)[1]])

\* an enum over str was looked up in a registry with keys str and Enum
C19_Witness ==
    /\ last.op = "find_implementation"
    /\ last.cls = SomeStrEnum
    /\ DOMAIN last.registry = {str, Enum}
    /\ last.result = Ok(converter(Enum))

\* C20: the lookup of Optional[T] ends as the lookup of T does: with the
\* same converter, with None or with the same error
C20_OptionalTransparent ==
    last.op = "find_implementation" =>
        find_implementation(Optional(last.cls), last.registry) = last.result

\* Dict[str, int] was looked up in a registry with keys dict and
\* Dict[Any, int], and Optional[Dict[str, int]] is another type
C20_Witness ==
    /\ last.op = "find_implementation"
    /\ last.cls = Alias("dict", <<str, int>>)
    /\ Optional(last.cls) # last.cls
    /\ DOMAIN last.registry = {dict, Alias("dict", <<typing_Any, int>>)}
    /\ last.result = Ok(converter(Alias("dict", <<typing_Any, int>>)))

\* C21: when the registry holds both Tuple[int, int] and Tuple[Any, Any], a
\* lookup of Tuple[int, int] gives the converter registered for
\* Tuple[int, int]
C21_ExactOverAny ==
    (/\ last.op = "find_implementation"
     /\ last.cls = Alias("tuple", <<int, int>>)
     /\ {Alias("tuple", <<int, int>>), Alias("tuple", <<typing_Any, typing_Any>>)}
            \subseteq DOMAIN last.registry)
    => last.result = Ok(converter(Alias("tuple", <<int, int>>)))

\* the registry key matches the query: the key is Any, or the key is a
\* class that the query (its origin, for a generic) is a subclass of, or
\* both are generics, the origin of the query a subclass of the origin of
\* the key, with as many arguments, each matching in its turn
RECURSIVE Matches(_, _)
Matches(query, key) ==
    IF key = typing_Any THEN TRUE
    ELSE IF key.args = <<>>
    THEN lenient_issubclass(IF query.args = <<>> THEN query ELSE Cls(query.name), key)
    ELSE /\ query.args # <<>>
         /\ lenient_issubclass(Cls(query.name), Cls(key.name))
         /\ Len(query.args) = Len(key.args)
         /\ \A i \in 1..Len(key.args) : Matches(query.args[i], key.args[i])

\* the keys of the registry of the lookup that match its type
MatchingKeys == {k \in DOMAIN last.registry : Matches(last.cls, k)}

\* the matching keys with the greatest compatibility depth
DeepestKeys ==
    LET depth(k) == lenient_issubclass_respect_origin_plus_depth(last.cls, k, 1).depth
    IN {k \in MatchingKeys : \A o \in MatchingKeys : depth(o) <= depth(k)}

FirstKey(mro, registry) ==
    LET found == {i \in 1..Len(mro) : mro[i] \in DOMAIN registry}
    IN IF found = {} THEN None
       ELSE mro[CHOOSE i \in found : \A j \in found : i <= j]

\* the lookup was of a class that is no enumeration
PlainLookup ==
    /\ last.op = "find_implementation"
    /\ last.cls.args = <<>>
    /\ ~lenient_issubclass(last.cls, Enum)

\* C23: the lookup of a non-generic class that is no enumeration gives the
\* converter of the first registry key in the linearization of the class
\* (cls.__mro__ when no key is an abstract base class, the composed one
\* otherwise, unless the lookup raises): StringSubtype resolves to str, and
\* C(A, B) to A when A and B are both keys
C23_FirstInLinearization ==
    PlainLookup =>
        /\ (\A k \in DOMAIN last.registry : ~has_abstractmethods(k)) =>
                last.result = Ok(get(last.registry, FirstKey(class_mro[last.cls], last.registry)))
        /\ last.result.ok =>
                last.result.v = get(last.registry,
                    FirstKey(compose_mro(last.cls, keys(last.registry)), last.registry))
        /\ (last.cls = StringSubtype /\ str \in DOMAIN last.registry) =>
                last.result = Ok(converter(str))
        /\ (last.cls = C /\ {A, B} \subseteq DOMAIN last.registry) =>
                last.result = Ok(converter(A))

\* C(A, B) was looked up in the registry with the keys A and B, and the
\* converter of A was found
C23_Witness ==
    /\ PlainLookup
    /\ last.cls = C
    /\ DOMAIN last.registry = {A, B}
    /\ last.result = Ok(converter(A))

\* the lookup of cls in a registry that has key gave the converter of key
Resolves(cls, key) ==
    (last.cls = cls /\ key \in DOMAIN last.registry) => last.result = Ok(converter(key))

\* C24: among the matching keys the most deeply matching one wins, and the
\* key that is the bare origin wins only when no subscripted key matches:
\* Tuple[List[float], Dict[str, int]] resolves to the key of that type,
\* Tuple[List[float], Dict[int, int]] to Tuple[List[float], dict],
\* Tuple[List[int], dict] to tuple when no subscripted key matches, and
\* List[int] to list
C24_DeepestWins ==
    last.op = "find_implementation" =>
        /\ \A k \in DOMAIN last.registry :
               last.result = Ok(converter(k)) =>
                   /\ DeepestKeys = {k}
                   /\ k.args = <<>> => \A o \in MatchingKeys : o.args = <<>>
        /\ Resolves(Alias("tuple", <<Alias("list", <<float>>), Alias("dict", <<str, int>>)>>),
                    Alias("tuple", <<Alias("list", <<float>>), Alias("dict", <<str, int>>)>>))
        /\ Resolves(Alias("tuple", <<Alias("list", <<float>>), Alias("dict", <<int, int>>)>>),
                    Alias("tuple", <<Alias("list", <<float>>), dict>>))
        /\ Alias("tuple", <<typing_Any, typing_Any>>) \notin DOMAIN last.registry =>
               Resolves(Alias("tuple", <<Alias("list", <<int>>), dict>>), tuple)
        /\ Resolves(Alias("list", <<int>>), list)

\* Tuple[List[float], Dict[str, int]] was looked up in the registry with the
\* keys tuple, Tuple[List[float], dict] and Tuple[List[float], Dict[str, int]],
\* which all match, and the last one was found
C24_Witness ==
    /\ last.op = "find_implementation"
    /\ last.cls = Alias("tuple", <<Alias("list", <<float>>), Alias("dict", <<str, int>>)>>)
    /\ DOMAIN last.registry =
           {tuple, Alias("tuple", <<Alias("list", <<float>>), dict>>),
            Alias("tuple", <<Alias("list", <<float>>), Alias("dict", <<str, int>>)>>)}
    /\ Cardinality(MatchingKeys) = 3
    /\ last.result =
           Ok(converter(Alias("tuple", <<Alias("list", <<float>>), Alias("dict", <<str, int>>)>>)))

\* the lookup in the registry with the one key gave the converter of key
\* if key matches cls, and None if it does not
ResolvesIffMatches(cls, key) ==
    (last.cls = cls /\ DOMAIN last.registry = {key}) =>
        last.result = IF Matches(cls, key) THEN Ok(converter(key)) ELSE Ok(None)

\* C25: a registry key matches a generic query exactly if the origin of
\* the query is a subclass of the origin of the key, the numbers of
\* arguments are equal and every argument of the query is a subtype of the
\* argument of the key, or that one is Any: Dict[StringSubtype, SomeIntEnum]
\* matches Dict[str, int], Dict[str, bool] matches Dict[Any, int], and
\* Dict[str, float] does not match Dict[str, int]
C25_CovariantMatching ==
    last.op = "find_implementation" =>
        /\ \A k \in DOMAIN last.registry :
               lenient_issubclass_respect_origin_plus_depth(last.cls, k, 1).check
                   <=> Matches(last.cls, k)
        /\ \A k \in DOMAIN last.registry : ResolvesIffMatches(last.cls, k)
        /\ Matches(Alias("dict", <<StringSubtype, SomeIntEnum>>), Alias("dict", <<str, int>>))
        /\ Matches(Alias("dict", <<str, bool>>), Alias("dict", <<typing_Any, int>>))
        /\ ~Matches(Alias("dict", <<str, float>>), Alias("dict", <<str, int>>))

\* Dict[StringSubtype, SomeIntEnum] was looked up in the registry with the
\* one key Dict[str, int], and its converter was found; or Dict[str, float]
\* was, and nothing was found
C25_Witness ==
    /\ last.op = "find_implementation"
    /\ DOMAIN last.registry = {Alias("dict", <<str, int>>)}
    /\ \/ /\ last.cls = Alias("dict", <<StringSubtype, SomeIntEnum>>)
          /\ last.result = Ok(converter(Alias("dict", <<str, int>>)))
       \/ /\ last.cls = Alias("dict", <<str, float>>)
          /\ last.result = Ok(None)

\* the associations of the factory for the role that name the field
NamedFor(callback_type) ==
    {assoc \in Range(last.statelit_converter_associations) :
        assoc.callback_type = callback_type /\ last.field.name \in assoc.fields}

\* the lookup of the type of the field among the types registered for the role
TypeLookup(callback_type) ==
    find_implementation(last.field.type_,
        callback_mapping(last.statelit_converter_associations, "types", callback_type))

\* the callback of the node for the role
RoleCallback(node, callback_type) ==
    CASE callback_type = "widget" -> node.widget_callback
      [] callback_type = "to_streamlit" -> node.to_streamlit_callback
      [] callback_type = "from_streamlit" -> node.from_streamlit_callback

\* C26: for every role, a converter registered under the name of the field
\* is the one that is used, whatever the lookup of the type gives for that
\* role; a role without one is resolved by the type of the field, whatever
\* is registered under the name for the other roles
C26_FieldNameFirst ==
    last.op = "call" =>
        /\ \A r \in CallbackTypes :
               (last.result.ok /\ NamedFor(r) # {}) =>
                   RoleCallback(last.result.v, r) \in
                       {make_callback(getattr(assoc.converter_name), last.field) :
                           assoc \in NamedFor(r)}
        /\ \A r \in CallbackTypes :
               (last.result.ok /\ NamedFor(r) = {}) =>
                   /\ TypeLookup(r).ok
                   /\ RoleCallback(last.result.v, r) =
                          IF TypeLookup(r).v = None THEN identity
                          ELSE make_callback(TypeLookup(r).v, last.field)
        /\ ~last.result.ok =>
               \E r \in CallbackTypes :
                   /\ NamedFor(r) = {}
                   /\ \/ last.result = TypeLookup(r)
                      \/ r = "widget" /\ TypeLookup(r) = Ok(None)

\* the widget converter _convert is registered for the field a by its name
\* and _pre_convert for its type int: the node has the callback of _convert
\* as its widget callback, and the identity for the other roles
C26_Witness ==
    /\ last.op = "call"
    /\ last.field = [name |-> "a", type_ |-> int]
    /\ last.decorators =
           {[func |-> "_convert", callback_type |-> "widget", fields |-> {"a"}, types |-> {}],
            [func |-> "_pre_convert", callback_type |-> "widget", fields |-> {}, types |-> {int}]}
    /\ last.result.ok
    /\ last.result.v.widget_callback = make_callback(getattr("_convert"), last.field)
    /\ last.result.v.to_streamlit_callback = identity

\* C27: every association has exactly one of its two selectors non-empty:
\* the class body raises exactly if a decorator is given both fields and
\* types, and no association has both selectors empty
C27_ExactlyOneSelector ==
    /\ last.op # "class" =>
           (last.op = "raised" <=>
               \E d \in last.decorators : d.fields # {} /\ d.types # {})
    /\ \A assoc \in Range(last.statelit_converter_associations) :
           (assoc.fields = {}) # (assoc.types = {})

\* C28: when no widget converter is found for a field, by its name or by
\* its type, the call of the factory raises TypeError with the type of the
\* field and there is no node; a serialize or parse converter that is not
\* found is no error, and the node has the identity for that role
C28_UnsupportedType ==
    last.op = "call" =>
        /\ (NamedFor("widget") = {} /\ TypeLookup("widget") = Ok(None)) =>
               last.result = TypeError(last.field.type_)
        /\ ((NamedFor("widget") # {} \/ (TypeLookup("widget").ok /\ TypeLookup("widget").v # None))
            /\ \A r \in {"to_streamlit", "from_streamlit"} :
                   NamedFor(r) = {} /\ TypeLookup(r) = Ok(None)) =>
               /\ last.result.ok
               /\ last.result.v.to_streamlit_callback = identity
               /\ last.result.v.from_streamlit_callback = identity

\* a factory with converters of the roles to_streamlit and from_streamlit
\* for int, and none of the role widget, was called for a field of type
\* int, and the call raised TypeError with int
C28_Witness ==
    /\ last.op = "call"
    /\ last.field.type_ = int
    /\ \E assoc \in Range(last.statelit_converter_associations) :
           assoc.callback_type = "to_streamlit" /\ int \in assoc.types
    /\ \E assoc \in Range(last.statelit_converter_associations) :
           assoc.callback_type = "from_streamlit" /\ int \in assoc.types
    /\ last.result = TypeError(int)

\* C29: when two methods of the factory register the same type for the
\* same role and the type of the field matches it, with no converter
\* registered under the name of the field for that role, the call of the
\* factory raises, and neither converter is picked
C29_NoSilentResolution ==
    last.op = "call" =>
        \A r \in CallbackTypes :
            (/\ NamedFor(r) = {}
             /\ \E a1, a2 \in Range(last.statelit_converter_associations) :
                    /\ a1.converter_name # a2.converter_name
                    /\ a1.callback_type = r /\ a2.callback_type = r
                    /\ \E k \in a1.types \cap a2.types : Matches(last.field.type_, k))
            => ~last.result.ok

\* C30: chain_two_callables(f, g) calls nothing; the chained callable
\* called with args calls f with no arguments, then g with args, and gives
\* what g returns or raises; when f raises g is not called; so the
\* apply_delta of a widget runs before the on_change of the user
C30_ChainOrder ==
    /\ last.op \in {"callables", "chained"} => last.calls = <<>>
    /\ last.op = "called" =>
           /\ last.calls[1] = [func |-> last.func1, args |-> <<>>]
           /\ IF last.func1.raises
              THEN Len(last.calls) = 1 /\ last.result = Exception
              ELSE /\ last.calls = <<[func |-> last.func1, args |-> <<>>],
                                     [func |-> last.func2, args |-> last.args]>>
                   /\ last.result = call(last.func2, last.args)
           /\ (last.func2.name = "g" /\ ~last.func1.raises /\ ~last.func2.raises
                   /\ last.args # <<>>) => last.result = Ok(2 * last.args[1])
           /\ \A i \in 1..Len(last.calls) :
                  last.calls[i].func.name = "on_change" =>
                      \E j \in 1..(i - 1) : last.calls[j].func = last.func1

\* f and g were chained and the chained callable was called with 1: f was
\* called, then g with 1, and the result is 2
C30_Witness ==
    /\ last.op = "called"
    /\ last.func1 = [name |-> "f", raises |-> FALSE]
    /\ last.func2 = [name |-> "g", raises |-> FALSE]
    /\ last.args = <<1>>
    /\ Len(last.calls) = 2
    /\ last.result = Ok(2)

\* C32: sync, with either value of update_lazy and on any node, leaves the
\* store entry of every replicated key of every node as it was; and a step
\* that creates or changes the store entry of a replicated key is
\* commit_key(state_type="replicated") of that key or the user's change of
\* the widget rendered under it
C32_SyncLeavesEagerKeys ==
    [][/\ last'.op = "sync" =>
             \A n \in Nodes : \A key \in Range(replicated_state_keys[n]) :
                 IF key \in DOMAIN session_state
                 THEN key \in DOMAIN session_state' /\ session_state'[key] = session_state[key]
                 ELSE key \notin DOMAIN session_state'
       /\ \A n \in Nodes : \A key \in Range(replicated_state_keys'[n]) \cap DOMAIN session_state' :
             (key \notin DOMAIN session_state \/ session_state'[key] # session_state[key]) =>
                 /\ last'.key = key
                 /\ \/ last'.op = "commit_key" /\ last'.arg = "replicated"
                    \/ last'.op \in {"widget", "field"}]_vars

\* sync(update_lazy=True) ran on the model while its replicated key held a
\* text other than the one it wrote under the base key
C32_Witness ==
    /\ last.op = "sync" /\ last.node = "M" /\ last.arg = "lazy"
    /\ BaseHolds("M")
    /\ \E key \in Range(replicated_state_keys["M"]) :
           /\ key \in DOMAIN session_state
           /\ session_state[key] # session_state[base_state_key["M"]]

\* C33: when Apply runs on a lazy key of the model whose text parses to an
\* object O, afterwards the model's value is O, its base key holds
\* serialize(O), the lazy key holds what the base key holds and no error is
\* shown; when the text does not parse to a valid object, every value, the
\* whole store (the base keys of the model and of its fields and the text
\* under the lazy key with it) and the key lists are what they were, and an
\* error is shown
C33_LazyApply ==
    [][last'.op = "apply" =>
          LET O == Model_parse_raw(session_state[last'.key])
          IN IF O.ok
             THEN /\ value'["M"] = O.v
                  /\ ValuesBelow(World', "M", O.v)
                  /\ session_state'[base_state_key'["M"]] = to_streamlit("M", O.v)
                  /\ session_state'[last'.key] = session_state'[base_state_key'["M"]]
                  /\ ~last'.surfaced /\ last'.raised = ""
             ELSE /\ value' = value
                  /\ session_state' = session_state
                  /\ lazy_state_keys' = lazy_state_keys
                  /\ last'.surfaced /\ last'.raised = ""]_vars

\* Apply rejected a text whose fields are valid one by one and that breaks
\* the rule across the fields: it is still under the lazy key, next to the
\* base representation of the value the model keeps
C33_Witness ==
    /\ last.op = "apply" /\ last.surfaced
    /\ session_state[last.key] \notin {Junk, session_state[base_state_key["M"]]}
    /\ ~Model_parse_raw(session_state[last.key]).ok
    /\ BaseHolds("M")

\* C34: the on_change callback of the widget of a field applies the change
\* against the model that owns the field, as apply_field_delta does: it
\* raises nothing, and when the candidate data builds an object the owner's
\* value is that object and its base key holds serialize of it, otherwise
\* the owner keeps its value and an error is shown
C34_FieldEditReachesOwner ==
    [][(last'.op = "widget" /\ last'.node # "M") =>
          \A parent \in Nodes :
              last'.node \in Range(Fields(parent)) =>
                  LET c == Candidate(parent, last'.node, last'.v)
                  IN /\ last'.raised = ""
                     /\ IF c.ok
                        THEN /\ value'[parent] = c.v
                             /\ BaseHoldsIn(World', parent)
                             /\ ~last'.surfaced
                        ELSE /\ value'[parent] = value[parent]
                             /\ last'.surfaced]_vars

\* C35: after a rejected whole-object or single-field edit the store is
\* what it was when the callback was called, the reported value under the
\* widget's key: no entry was added or changed, and the lazy keys of the
\* edited node and of the nodes below it hold the text they held
C35_RejectedEditLeavesStore ==
    [][(last'.op \in {"widget", "field"} /\ last'.surfaced) =>
          /\ session_state' = SetItem(session_state, last'.key, last'.v)
          /\ \A n \in Subtree(last'.node) : \A key \in Range(lazy_state_keys[n]) :
                 key \in DOMAIN session_state =>
                     /\ key \in DOMAIN session_state'
                     /\ session_state'[key] = session_state[key]]_vars

-----------------------------------------------------------------------------
(* The two delta handlers called on their own (core.py 81-104), with a key *)
(* a widget reports under or a key that has no entry in the store.         *)

\* a key of node n that has no entry in the store
MissingKey(n) == base_state_key[n] \o <<"_missing">>

\* the keys the handlers are called with for node n
DeltaKeys(n) == Range(replicated_state_keys[n]) \cup {MissingKey(n)}

\* state_manager.apply_obj_delta(key=key, parent=parent), after raw was
\* stored under a key that a widget reports under
ApplyObjDelta(parent, key, raw) ==
    /\ key \in DeltaKeys(parent)
    /\ LET w == IF key = MissingKey(parent) THEN World
                ELSE [World EXCEPT !.ss = SetItem(@, key, raw)]
           o == apply_obj_delta(w, key, parent)
       IN Becomes(o.w)
          /\ last' = Op("obj_delta", parent, key, "",
                        IF key = MissingKey(parent) THEN NoValue ELSE raw, o)

\* state_manager.apply_field_delta(key, field_name, parent=parent), after
\* raw was stored under a key that a widget reports under
ApplyFieldDelta(parent, field_name, key, raw) ==
    /\ key \in DeltaKeys(field_name)
    /\ LET w == IF key = MissingKey(field_name) THEN World
                ELSE [World EXCEPT !.ss = SetItem(@, key, raw)]
           o == apply_field_delta(w, key, field_name, parent)
       IN Becomes(o.w)
          /\ last' = Op("field_delta", parent, key, field_name,
                        IF key = MissingKey(field_name) THEN NoValue ELSE raw, o)

NextDelta ==
    \/ Construct
    \/ \E n \in WidgetNodes : RenderWidget(n)
    \/ \E key \in DeltaKeys("M") : \E raw \in UserInputs("M") : ApplyObjDelta("M", key, raw)
    \/ \E key \in DeltaKeys("a") : \E raw \in UserInputs("a") :
           ApplyFieldDelta("M", "a", key, raw)

SpecDelta == Init /\ [][NextDelta]_vars

\* C36: a call of apply_obj_delta or of apply_field_delta raises nothing,
\* whatever fails in it; when the key cannot be read or its content does
\* not give a valid object the failure is shown and the parent keeps the
\* value it had
C36_EveryFailureRecovered ==
    [][last'.op \in {"obj_delta", "field_delta"} =>
          /\ last'.raised = ""
          /\ last'.key \notin DOMAIN session_state' => last'.surfaced
          /\ last'.surfaced => value'[last'.node] = value[last'.node]]_vars

-----------------------------------------------------------------------------
(* A page that passes key_suffix to the widgets it renders (core.py        *)
(* 106-124): the key is f"{base_state_key}.{key_suffix}".                  *)

\* the suffixes the page passes: the name of a field and another name
KeySuffixes == {"a", "w"}

\* the nodes rendered with a suffix: the model
SuffixNodes == {"M"}

\* state_manager._widget(obj, key_suffix=key_suffix), once in a pass for
\* obj: the node is given the key gen_key(key_suffix) as a replicated key
RenderWidgetSuffix(n, key_suffix) ==
    /\ Rendering
    /\ replicated_state_keys[n] = <<>>
    /\ LET key == gen_key(World, n, <<key_suffix>>)
           o == commit_key(World, n, key, "replicated")
       IN Becomes(o.w) /\ last' = Op("commit_key", n, key, "replicated", NoValue, o)

NextSuffix ==
    \/ Construct
    \/ \E n \in SuffixNodes : \E key_suffix \in KeySuffixes : RenderWidgetSuffix(n, key_suffix)
    \/ \E n \in SuffixNodes : \E key \in Range(replicated_state_keys[n]) :
           \E raw \in UserInputs(n) : WidgetChange(n, key, raw)

SpecSuffix == Init /\ [][NextSuffix]_vars

\* C38: the base, replicated and lazy keys of two distinct nodes have no
\* key in common, whatever keys gen_key returned and commit_key registered
C38_KeySetsDisjoint ==
    \A m \in Nodes : \A n \in Nodes \ {m} :
        all_keys_generator(World, m) \cap all_keys_generator(World, n) = {}

\* C39: sync(update_lazy=False) on a model node leaves the store entry of
\* every lazy key of the node and of every node below it as it was
C39_SyncLeavesLazyKeysBelow ==
    [][(last'.op = "sync" /\ last'.arg = "" /\ IsStatelitModel(last'.node)) =>
          \A n \in Subtree(last'.node) : \A key \in Range(lazy_state_keys[n]) :
              key \in DOMAIN session_state =>
                  /\ key \in DOMAIN session_state'
                  /\ session_state'[key] = session_state[key]]_vars

\* the number of replicated and lazy keys node n has
KeyCount(n) == Len(replicated_state_keys[n]) + Len(lazy_state_keys[n])

\* C40: in every state of a page whose widgets take generated keys, the
\* key gen_key() returns for a node is the candidate numbered by the keys
\* the node was given in this pass, whatever the store holds and however
\* often it is called; and so the k-th key committed for a node in a pass
\* is f"{base_state_key}._state_ref.{k}", counting from 0, in every pass
C40_GeneratedKeysStable ==
    /\ \A n \in Nodes : next_key_loop(World, n) = Ok(CandidateKey(n, KeyCount(n)))
    /\ last.op = "commit_key" => last.key = CandidateKey(last.node, KeyCount(last.node) - 1)

\* in a pass after an accepted edit the model was given its second key,
\* a key the store already held from an earlier pass
C40_Witness ==
    /\ last.op = "commit_key" /\ last.node = "M"
    /\ last.key = CandidateKey("M", 1)
    /\ value["M"] # DefaultModel
    /\ \E i \in 0..(KeyLimit - 1) :
           /\ CandidateKey("a", i) \in DOMAIN session_state
           /\ replicated_state_keys["a"] = <<>>

-----------------------------------------------------------------------------
(* The converters of the default factory (field_factory/main.py) and of    *)
(* the model node (state/model.py), applied to the values of a field.      *)
(* Python values are tagged: [list |-> <<...>>], [set |-> {...}],          *)
(* [dict |-> (k :> v)], [str |-> s], [date |-> d] for a date,              *)
(* [date |-> d, time |-> t] for a datetime with t = 0 for midnight,        *)
(* [color |-> c] for a Color, [lower |-> d, upper |-> u] for a DateRange,  *)
(* [json |-> doc] for the text json.dumps writes for doc.                  *)

IsInstance(x, fields) == DOMAIN x = fields

\* datetime.combine(d, datetime.min.time()): a datetime given for d counts
\* with its date only
datetime_combine_min(x) == [date |-> x.date, time |-> 0]

\* the callback of _pre_convert_datetime
pre_convert_datetime(x) ==
    IF IsInstance(x, {"date", "time"}) THEN datetime_combine_min(x) ELSE x

\* the callback of _post_convert_datetime: a datetime is a date
post_convert_datetime(x) ==
    IF "date" \in DOMAIN x THEN datetime_combine_min(x) ELSE x

\* str(k) of a key of a dict that json.dumps writes
json_key(k) == IF IsNum(k) THEN [str |-> Str(k.num)] ELSE k

RECURSIVE sorted(_)
\* list(s) for a set of small numbers, which iterates in ascending order
sorted(s) ==
    IF s = {} THEN <<>>
    ELSE LET m == CHOOSE v \in s : \A u \in s : v.num <= u.num
         IN <<m>> \o sorted(s \ {m})

\* what json.dumps(x, default=statelit_encoder) writes: pydantic_encoder
\* turns a set into a list, and the keys of an object are strings
json_encode(x) ==
    IF IsInstance(x, {"set"}) THEN [list |-> sorted(x.set)]
    ELSE IF IsInstance(x, {"dict"})
    THEN [dict |-> [k \in {json_key(j) : j \in DOMAIN x.dict} |->
                       x.dict[CHOOSE j \in DOMAIN x.dict : json_key(j) = k]]]
    ELSE x

\* the callback of _pre_convert_list_or_dict_or_set
pre_convert_list_or_dict_or_set(x) == [json |-> json_encode(x)]

\* the callback of _post_convert_list_or_dict_or_set: json.loads(x) unless
\* x is a list, a dict or a set
post_convert_list_or_dict_or_set(x) ==
    IF \E tag \in {"list", "dict", "set"} : IsInstance(x, {tag}) THEN x ELSE x.json

\* the callback of _pre_convert_color: Color.as_hex()
pre_convert_color(x) == [str |-> x.color]

\* DateRange.validate(value, ...) for an instance of DateRange
DateRange_validate(x) == x

\* the field types that the page binds
FieldTypes == {"Model", "BaseModel", "datetime", "list", "dict", "set", "Color", "DateRange"}

\* to_streamlit of the node of a field of type type_; a type without a
\* converter of the role has _identity
field_to_streamlit(type_, v) ==
    CASE type_ = "Model" -> to_streamlit("M", v)
      [] type_ = "BaseModel" -> to_streamlit("sm", v)
      [] type_ = "datetime" -> pre_convert_datetime(v)
      [] type_ \in {"list", "dict", "set"} -> pre_convert_list_or_dict_or_set(v)
      [] type_ = "Color" -> pre_convert_color(v)
      [] type_ = "DateRange" -> DateRange_validate(v)

\* from_streamlit of the node of a field of type type_
field_from_streamlit(type_, x) ==
    CASE type_ = "Model" -> from_streamlit("M", x)
      [] type_ = "BaseModel" -> from_streamlit("sm", x)
      [] type_ = "datetime" -> Ok(post_convert_datetime(x))
      [] type_ \in {"list", "dict", "set"} -> Ok(post_convert_list_or_dict_or_set(x))
      [] type_ = "Color" -> Ok(x)
      [] type_ = "DateRange" -> Ok(DateRange_validate(x))

\* the keys of the dicts: a number and a string
DictKeys == {Num(0), [str |-> "k"]}

\* the valid values of a field of type type_
FieldValues(type_) ==
    CASE type_ = "Model" -> ModelObjs
      [] type_ = "BaseModel" -> SmallObjs
      [] type_ = "datetime" -> [date : 0..MaxNum, time : 0..MaxNum]
      [] type_ = "list" ->
           {[list |-> <<>>]} \cup {[list |-> <<a>>] : a \in Nums}
               \cup {[list |-> <<a, b>>] : a \in Nums, b \in Nums}
      [] type_ = "dict" ->
           {[dict |-> d] : d \in UNION {[ks -> Nums] : ks \in SUBSET DictKeys}}
      [] type_ = "set" -> {[set |-> s] : s \in SUBSET Nums}
      [] type_ = "Color" -> {[color |-> c] : c \in {"#f00", "#0f0", "#00f"}}
      [] type_ = "DateRange" ->
           {r \in [lower : 0..MaxNum, upper : (0..MaxNum) \cup {-1}] :
               r.upper = -1 \/ r.lower <= r.upper}

\* a node holds a valid value of its field type
InitConvert ==
    LET o == StateManager_init(Blank)
    IN /\ session_state = o.w.ss
       /\ value = o.w.val
       /\ base_state_key = o.w.base
       /\ replicated_state_keys = o.w.repl
       /\ lazy_state_keys = o.w.lazy
       /\ last \in UNION {{[op |-> "value", type_ |-> type_, v |-> v,
                            representation |-> NoValue, result |-> NoValue] :
                               v \in FieldValues(type_)} : type_ \in FieldTypes}

\* node.to_streamlit(node.value)
ToStreamlit ==
    /\ last.op = "value"
    /\ last' = [last EXCEPT !.op = "to_streamlit",
                            !.representation = field_to_streamlit(last.type_, last.v)]
    /\ UNCHANGED <<session_state, value, base_state_key, replicated_state_keys, lazy_state_keys>>

\* node.from_streamlit(...) of the representation
FromStreamlit ==
    /\ last.op = "to_streamlit"
    /\ last' = [last EXCEPT !.op = "from_streamlit",
                            !.result = field_from_streamlit(last.type_, last.representation)]
    /\ UNCHANGED <<session_state, value, base_state_key, replicated_state_keys, lazy_state_keys>>

NextConvert == ToStreamlit \/ FromStreamlit

SpecConvert == InitConvert /\ [][NextConvert]_vars

\* C31: from_streamlit(to_streamlit(v)) is v for every valid value v of the
\* model and of every field type
C31_RoundTrip ==
    last.op = "from_streamlit" => last.result = Ok(last.v)

====
